---- MODULE Spec2Model ----
(***************************************************************************)
(* A model of netbox-paas: the PaaSNetBox orchestration client (plugin      *)
(* lifecycle, database backup, upgrade), the web forms and REST endpoints   *)
(* that enqueue its jobs, and the two singleton Django models.              *)
(*                                                                          *)
(* Remote state (the files on the cp master node, the actions running in    *)
(* the environment, the scheduled tasks) is part of the state; every remote *)
(* call of a job is one step of the worker that runs it.                    *)
(*                                                                          *)
(* Further parts: the per-class lru_cache behind a client's environment     *)
(* information, the image registry read by get_upgrades, two workers        *)
(* running jobs side by side, and the platform's script store.              *)
(***************************************************************************)
EXTENDS Integers, Sequences, FiniteSets, TLC

VARIABLES
    \* ---- the running NetBox (django.conf.settings)
    netboxVersion,    \* settings.VERSION
    settingsPlugins,  \* settings.PLUGINS: the app labels NetBox has loaded
    settingsConfig,   \* settings.PLUGINS_CONFIG: app label -> settings
    \* ---- remote environment
    addonInstalled,   \* the db-backup addon is installed on the sqldb node group
    running,          \* the actions the platform is running now (GetCurrentActions)
    pluginsFile,      \* /etc/netbox/config/plugins.yaml: [exists, text]
    disabledFile,     \* /etc/netbox/config/disabled_plugins.yaml
    reqFile,          \* /etc/netbox/plugin_requirements.txt: [exists, text]
    \* ---- the RQ workers running PaaSJob._run_job
    job,              \* job[w]: the enqueued function and its keyword arguments
    status,           \* job[w]'s Job status: idle / running / completed / errored
    data,             \* data[w]: _run_job's local data, and whether job.data was saved
    pc,               \* pc[w]: the statement worker w executes next
    call,             \* call[w]: arguments of the install_plugin call in progress
    req,              \* req[w]: the RequirementsParser local of the running call
    plugins,          \* plugins[w]: local dict loaded from a yaml file
    disabled,         \* disabled[w]: second local dict loaded from a yaml file
    log,              \* log[w]: remote calls with an effect issued by job[w], in order
    pre,              \* pre[w]: the files as they were when job[w] started (history)
    lastPoll,         \* lastPoll[w]: what db_backup's last poll reported, and whether it slept
    up,               \* up[w]: upgrade's target version and its place in the plugin loop
    roundTrip,        \* roundTrip[w]: set while enable_plugin runs right after
                      \* disable_plugin of the same plugin: the files before both (history)
    rqWorkers,        \* the number of RQ workers serving the 'default' queue
    license,          \* NetBoxConfiguration.license
    response,         \* the answer to the last submission, with the job it enqueued
    configurations,   \* the NetBoxConfiguration rows
    dbBackups,        \* the NetBoxDBBackup rows
    nextPk,           \* the next primary key of each of the two tables
    validation,       \* the outcome of the last create, edit or delete of a row
    \* ---- the PaaS clients' cached environment information
    envInfo,          \* envInfo[e]: the revision GetEnvInfo returns for environment e now
    envInfoCache,     \* the lru_cache of PaaS._get_env_info, least recently used first
    envInfoRequests,  \* per client: GetEnvInfo requests issued since the last clear_cache
    lastAccess,       \* the last cached accessor called, and what it returned
    \* ---- the NetBox image's registry
    registry,         \* the tag names Docker Hub lists for the NetBox image, in order
    upgrades,         \* the last get_upgrades call: its argument and what it returned
    \* ---- the platform's stored scripts and scheduled tasks
    scripts,          \* scripts[id]: the code stored under a script name, or None
    tasks,            \* the one-shot environment tasks scheduled and not yet run
    scriptCall        \* the last run_script call: its arguments and what it did

vars == <<netboxVersion, settingsPlugins, settingsConfig, addonInstalled, running,
          pluginsFile, disabledFile, reqFile, job, status, data, pc, call, req,
          plugins, disabled, log, pre, lastPoll, up, roundTrip,
          rqWorkers, license, response, configurations, dbBackups, nextPk, validation,
          envInfo, envInfoCache, envInfoRequests, lastAccess, registry, upgrades,
          scripts, tasks, scriptCall>>

clientVars == <<envInfo, envInfoCache, envInfoRequests, lastAccess>>
registryVars == <<registry, upgrades>>
\* What no job, submission or model operation writes.
scriptVars == <<scripts, tasks, scriptCall>>
\* What no job, submission or model operation writes.
settingsVars == <<netboxVersion, settingsPlugins, settingsConfig, addonInstalled, clientVars,
                  registryVars, scriptVars>>
webVars == <<rqWorkers, license, response>>
modelVars == <<configurations, dbBackups, nextPk, validation>>
\* What the plugin lifecycle operations neither read nor write.
nbVars == <<settingsVars, running, webVars, modelVars>>
fileVars == <<pluginsFile, disabledFile, reqFile>>
envVars == <<nbVars, fileVars>>
jobVars == <<job, status, data, pc, call, req, plugins, disabled, log, pre, lastPoll, up, roundTrip>>

-----------------------------------------------------------------------------
(* Constants of the program.                                               *)

NODE_GROUP_CP == "cp"
NODE_GROUP_SQLDB == "sqldb"
PLUGINS_FILE_NAME == "plugins.yaml"
DISABLED_PLUGINS_FILE_NAME == "disabled_plugins.yaml"
REQUIREMENTS_FILE_NAME == "plugin_requirements.txt"

None == "None"          \* Python's None

\* A remote file: it exists or not (`cat` of a missing file fails), and its text.
AbsentFile == [exists |-> FALSE, text |-> <<>>]
File(text) == [exists |-> TRUE, text |-> text]

Workers == {"w1", "w2"}

-----------------------------------------------------------------------------
(* The environment GetEnvInfo describes: node groups, the docker image of   *)
(* each group's master node, and the nodes.                                 *)

EnvNodeGroups ==
    << [name |-> "bl",     dockerName |-> "jelastic/nginxbalancer", nodes |-> <<"n10">>],
       [name |-> "cp",     dockerName |-> "netboxcommunity/netbox", nodes |-> <<"n20", "n21">>],
       [name |-> "sqldb",  dockerName |-> "jelastic/postgres",      nodes |-> <<"n30">>],
       [name |-> "worker", dockerName |-> "netboxcommunity/netbox", nodes |-> <<"n40">>] >>

IsNetBoxImage(dockerName) == dockerName = "netboxcommunity/netbox"

\* PaaSNetBox.get_nb_node_groups: the groups whose master node runs a netbox image,
\* in get_node_groups' order (sorted by display name).
get_nb_node_groups ==
    SelectSeq(EnvNodeGroups, LAMBDA g : IsNetBoxImage(g.dockerName))

SeqRange(s) == {s[i] : i \in 1..Len(s)}

NbGroupNames == [i \in 1..Len(get_nb_node_groups) |-> get_nb_node_groups[i].name]

-----------------------------------------------------------------------------
(* The plugin catalogue (utils.get_plugins_list): plugins.yaml of the       *)
(* netbox-jps repository, an ordered mapping from plugin name to plugin.    *)
(* A release tag is [num, semver]: num orders the releases by age, semver   *)
(* tells whether semver.parse_version_info accepts the tag's text ("v2.0"   *)
(* is not a semantic version). A release's netbox.min / netbox.max is a     *)
(* NetBox version or missing (<<>>); netbox.required_settings is the set of  *)
(* setting names the release needs.                                         *)

Tag(n) == [num |-> n, semver |-> TRUE]
VTag(n) == [num |-> n, semver |-> FALSE]

Catalogue ==
    << [name |-> "netbox-acl", app_label |-> "netbox_acl", private |-> FALSE,
        releases |-> << [tag |-> VTag(2), min |-> <<2>>, max |-> <<>>, required_settings |-> {}],
                        [tag |-> VTag(1), min |-> <<1>>, max |-> <<2>>, required_settings |-> {}] >>],
       [name |-> "netbox-dns", app_label |-> "netbox_dns", private |-> TRUE,
        releases |-> << [tag |-> Tag(1), min |-> <<1>>, max |-> <<2>>, required_settings |-> {}],
                        [tag |-> Tag(2), min |-> <<2>>, max |-> <<3>>, required_settings |-> {}] >>],
       [name |-> "netbox-sso", app_label |-> "netbox_sso", private |-> TRUE,
        releases |-> << [tag |-> Tag(1), min |-> <<>>, max |-> <<1>>, required_settings |-> {}],
                        [tag |-> Tag(2), min |-> <<1>>, max |-> <<2>>,
                         required_settings |-> {"top_level_menu"}] >>] >>

CatalogueIdx == 1..Len(Catalogue)
PluginNames == {Catalogue[i].name : i \in CatalogueIdx}
AppLabels == {Catalogue[i].app_label : i \in CatalogueIdx}

\* plugins.get(name)
PluginByName(n) == Catalogue[CHOOSE i \in CatalogueIdx : Catalogue[i].name = n]

\* Alphabetical order of the app labels (yaml.dump sorts the keys).
LabelOrder == <<"netbox_acl", "netbox_dns", "netbox_sso">>
Rank(l) == CHOOSE i \in 1..Len(LabelOrder) : LabelOrder[i] = l

-----------------------------------------------------------------------------
(* utils.is_compatible and utils.filter_releases                            *)

\* A missing (falsy) min or max does not restrict.
is_compatible(version, min, max) ==
    /\ ~(min # <<>> /\ version < min[1])
    /\ ~(max # <<>> /\ version > max[1])

RECURSIVE SortTagsDescending(_)
SortTagsDescending(tags) ==
    IF tags = <<>> THEN <<>>
    ELSE LET i == CHOOSE j \in 1..Len(tags) :
                    /\ \A k \in 1..Len(tags) : tags[k].num <= tags[j].num
                    /\ \A k \in 1..(j - 1) : tags[k].num < tags[j].num
             rest == [k \in 1..(Len(tags) - 1) |-> IF k < i THEN tags[k] ELSE tags[k + 1]]
         IN  <<tags[i]>> \o SortTagsDescending(rest)

\* The tags of the releases compatible with a NetBox version, newest first; when
\* a tag is no semantic version the sort raises ValueError and the compatible tags
\* are returned in the catalogue's order.
filter_releases(plugin, version) ==
    LET compatible == SelectSeq(plugin.releases,
                                LAMBDA r : is_compatible(version, r.min, r.max))
        tags == [i \in 1..Len(compatible) |-> compatible[i].tag]
    IN  IF \A i \in 1..Len(tags) : tags[i].semver
        THEN SortTagsDescending(tags)
        ELSE tags

\* The plugin configurations a user can submit, and what a yaml file can hold.
EmptySettings == "{}"
SomeSettings == "{top_level_menu: true}"
StoredSettings == {EmptySettings, SomeSettings}
SubmittedSettings == {None, EmptySettings, SomeSettings}

-----------------------------------------------------------------------------
NoTag == [num |-> 0, semver |-> FALSE]      \* no version given

(* YAML files. A dict is a function from a set of app labels to settings;   *)
(* a file's text is the sequence of its "key: value" entries.               *)

EmptyDict == [l \in {} |-> EmptySettings]

Pop(d, k) == [l \in (DOMAIN d) \ {k} |-> d[l]]
Put(d, k, v) == [l \in (DOMAIN d) \cup {k} |-> IF l = k THEN v ELSE d[l]]

RECURSIVE SortedKeys(_)
SortedKeys(S) ==
    IF S = {} THEN <<>>
    ELSE LET m == CHOOSE k \in S : \A o \in S : Rank(k) <= Rank(o)
         IN  <<m>> \o SortedKeys(S \ {m})

\* yaml.dump(plugins): one entry per key, keys sorted.
YamlDump(d) ==
    LET ks == SortedKeys(DOMAIN d)
    IN  [i \in 1..Len(ks) |-> [key |-> ks[i], value |-> d[ks[i]]]]

\* yaml.safe_load(text) or {}: a later entry of the same key wins.
YamlLoad(text) ==
    LET keys == {text[i].key : i \in 1..Len(text)}
        last(k) == CHOOSE i \in 1..Len(text) :
                      /\ text[i].key = k
                      /\ \A j \in 1..Len(text) : text[j].key = k => j <= i
    IN  [k \in keys |-> text[last(k)].value]

\* PaaSNetBox.load_plugins: cat the file; a failed cat (JelasticApiError) reads as "".
load_plugins(file) == IF file.exists THEN YamlLoad(file.text) ELSE EmptyDict

\* PaaSNetBox.dump_plugins: File.Write of yaml.dump(plugins), not in append mode.
dump_plugins(d) == File(YamlDump(d))

-----------------------------------------------------------------------------
(* plugin_requirements.txt and RequirementsParser. A line is either a       *)
(* requirement specifier "name==version" or a VCS url                       *)
(* "git+https://<token>@github.com/<repo>@<version>".                       *)

SpecLine(name, tag) == [kind |-> "specifier", pkg |-> name, ver |-> tag]
VcsLine(repo, tag) == [kind |-> "vcs", pkg |-> repo, ver |-> tag]
BareLine(name) == [kind |-> "specifier", pkg |-> name, ver |-> NoTag]

\* requirements.parser.Requirement.parse: a VCS url without an #egg= fragment has
\* no name; a specifier has no vcs and no uri.
ParseRequirement(line) ==
    [name |-> IF line.kind = "vcs" THEN None ELSE line.pkg,
     vcs  |-> IF line.kind = "vcs" THEN "git" ELSE None,
     uri  |-> IF line.kind = "vcs" THEN line.pkg ELSE None,
     line |-> line]

\* RequirementsParser.loads
ReqLoads(text) == [i \in 1..Len(text) |-> ParseRequirement(text[i])]

\* RequirementsParser.dumps
ReqDumps(reqs) == [i \in 1..Len(reqs) |-> reqs[i].line]

\* RequirementsParser._exists
ReqExists(reqs, r) ==
    \E i \in 1..Len(reqs) :
        IF r.vcs # None
        THEN reqs[i].vcs = r.vcs /\ reqs[i].uri = r.uri
        ELSE reqs[i].name = r.name

\* RequirementsParser.add: replace the first requirement of the same name in
\* place, else append; always returns True.
ReqAdd(reqs, line) ==
    LET r == ParseRequirement(line)
        hits == {i \in 1..Len(reqs) : reqs[i].name = r.name}
    IN  IF hits # {}
        THEN LET f == CHOOSE i \in hits : \A j \in hits : i <= j
             IN  [reqs EXCEPT ![f] = r]
        ELSE Append(reqs, r)

\* RequirementsParser.remove: [removed?, requirements]
ReqRemove(reqs, line) ==
    LET r == ParseRequirement(line)
    IN  IF ~ReqExists(reqs, r)
        THEN [ok |-> FALSE, reqs |-> reqs]
        ELSE [ok |-> TRUE, reqs |-> SelectSeq(reqs, LAMBDA x : x.name # r.name)]

\* install_plugin's requirement line for a plugin and a version.
PluginReq(plugin, version) ==
    IF plugin.private THEN VcsLine(plugin.name, version)
    ELSE SpecLine(plugin.name, version)

-----------------------------------------------------------------------------
(* Remote calls with an effect, as a job's log records them.                *)

Event(c, t, a, d) ==
    [call |-> c, target |-> t, arg |-> a, delay |-> d, tag |-> 0, groups |-> <<>>]

WriteEvent(fileName) == Event("File.Write", fileName, "", 0)
ExecEvent(node, cmd) == Event("ExecCmdById", node, cmd, 0)

\* The nodes of a node group (get_nodes(node_group, is_master=False)).
NodesOf(group) ==
    LET i == CHOOSE j \in 1..Len(EnvNodeGroups) : EnvNodeGroups[j].name = group
    IN  EnvNodeGroups[i].nodes

RECURSIVE Flatten(_)
Flatten(ss) == IF ss = <<>> THEN <<>> ELSE Head(ss) \o Flatten(Tail(ss))

\* install_plugin / uninstall_plugin: the ids of all nodes of the NetBox node groups.
NbNodeIds == Flatten([i \in 1..Len(NbGroupNames) |-> NodesOf(NbGroupNames[i])])

\* execute_cmd(node_id, cmd) for every node of a list, in order.
ExecOnAll(nodes, cmd) == [i \in 1..Len(nodes) |-> ExecEvent(nodes[i], cmd)]

\* sorted(node_groups): the node group names in ascending (alphabetical) order.
GroupOrder == <<"bl", "cp", "sqldb", "worker">>
SortedGroups(names) == SelectSeq(GroupOrder, LAMBDA g : g \in SeqRange(names))

RestartDelay == 10      \* restart_nodes' default delay, in seconds

\* A bug: the trigger delay is passed on in seconds.
run_script_in_seconds(name, target, delay) == Event("CreateEnvTask", target, name, delay)

\* PaaS.run_script: the script is (re)created and a one-shot task is scheduled for it
\* with trigger once_delay = delay * 1000.
run_script(name, target, delay) == Event("CreateEnvTask", target, name, delay * 1000)

\* PaaS.restart_nodes(node_groups, lazy=True): one script per node group, in
\* ascending order of the names; the cp group restarts first, the others ten times later.
restart_nodes_lazy(names) ==
    LET gs == SortedGroups(names)
    IN  [i \in 1..Len(gs) |->
            run_script("ncp-restart", gs[i],
                       IF gs[i] = NODE_GROUP_CP THEN RestartDelay ELSE RestartDelay * 10)]

-----------------------------------------------------------------------------
(* The RQ worker: PaaSJob._run_job runs one enqueued function at a time.    *)

NoJob == [func |-> "none", plugin |-> None, version |-> NoTag, plugin_settings |-> None]
NoCall == [plugin |-> None, version |-> NoTag, plugin_settings |-> None,
           restart |-> TRUE, collectstatic |-> TRUE, install |-> TRUE]
NoSnapshot == [plugins |-> AbsentFile, disabled |-> AbsentFile, req |-> AbsentFile]
NoUpgrade == [version |-> 0, idx |-> 0]
NoPoll == [result |-> "none", waited |-> FALSE]
NoRoundTrip == [on |-> FALSE, pre |-> NoSnapshot]

\* The keyword arguments PaaSJob.enqueue hands to Job.enqueue for a job:
\* kwargs["_func"] = func, and the function's own arguments.
Kwargs(j) == [k \in {"_func", "plugin", "version", "plugin_settings"} |->
                 CASE k = "_func" -> [func |-> j.func]
                   [] k = "plugin" -> [name |-> j.plugin]
                   [] k = "version" -> j.version
                   [] k = "plugin_settings" -> [settings |-> j.plugin_settings]]

\* data = {"params": kwargs} ... func = kwargs.pop("_func"): data["params"] is the
\* dict kwargs itself, so the pop removes the entry from it too.
StartedData(j) == [params |-> Pop(Kwargs(j), "_func"), result |-> <<>>, error |-> <<>>,
                   saved |-> FALSE]
NoData == [params |-> EmptyDict, result |-> <<>>, error |-> <<>>, saved |-> FALSE]

\* The value a function returns, and str(e) of the exception it raises.
Returned(func) == [returned_by |-> func]
Raised(func) == [raised_by |-> func]

\* A bug: the job is terminated as completed whatever happened.
TerminalStatusCompleted(raised) == "completed"

\* job.terminate() after the function returned,
\* job.terminate(status=JobStatusChoices.STATUS_ERRORED) in the except branch.
TerminalStatus(raised) == IF raised THEN "errored" ELSE "completed"

Snapshot == [plugins |-> pluginsFile, disabled |-> disabledFile, req |-> reqFile]

Free(w) == status[w] # "running"

Goto(w, label) == pc' = [pc EXCEPT ![w] = label]
Logged(w, events) == log' = [log EXCEPT ![w] = log[w] \o events]

\* job.start(): the job's first statement, an empty log, the files as they are now.
Begin(w, j, c, u, label) ==
    /\ Free(w)
    /\ job' = [job EXCEPT ![w] = j]
    /\ call' = [call EXCEPT ![w] = c]
    /\ status' = [status EXCEPT ![w] = "running"]
    /\ data' = [data EXCEPT ![w] = StartedData(j)]
    /\ pc' = [pc EXCEPT ![w] = label]
    /\ log' = [log EXCEPT ![w] = <<>>]
    /\ pre' = [pre EXCEPT ![w] = Snapshot]
    /\ lastPoll' = [lastPoll EXCEPT ![w] = NoPoll]
    /\ up' = [up EXCEPT ![w] = u]
    /\ roundTrip' = [roundTrip EXCEPT ![w] =
            IF /\ status[w] = "completed" /\ job[w].func = "disable_plugin"
               /\ j.func = "enable_plugin" /\ j.plugin = job[w].plugin
            THEN [on |-> TRUE, pre |-> pre[w]]
            ELSE NoRoundTrip]
    /\ req' = [req EXCEPT ![w] = <<>>]
    /\ plugins' = [plugins EXCEPT ![w] = EmptyDict]
    /\ disabled' = [disabled EXCEPT ![w] = EmptyDict]
    /\ UNCHANGED envVars

\* _run_job: the function returned; data.update({"result": result});
\* job.terminate(); job.data = data; job.save().
JobReturn(w) ==
    /\ status[w] = "running"
    /\ pc[w] = "return"
    /\ status' = [status EXCEPT ![w] = TerminalStatus(FALSE)]
    /\ data' = [data EXCEPT ![w].result = <<Returned(job[w].func)>>, ![w].saved = TRUE]
    /\ pc' = [pc EXCEPT ![w] = "idle"]
    /\ UNCHANGED <<envVars, job, call, req, plugins, disabled, log, pre, lastPoll, up, roundTrip>>

\* _run_job: the function raised; data.update({"error": str(e)});
\* job.terminate(status=errored); job.data = data; job.save().
Raise(w) ==
    /\ status' = [status EXCEPT ![w] = TerminalStatus(TRUE)]
    /\ data' = [data EXCEPT ![w].error = <<Raised(job[w].func)>>, ![w].saved = TRUE]
    /\ pc' = [pc EXCEPT ![w] = "idle"]

-----------------------------------------------------------------------------
(* PaaSNetBox.install_plugin                                                *)

StartInstall(w, p, v, cfg) ==
    Begin(w, [func |-> "install_plugin", plugin |-> p, version |-> v, plugin_settings |-> cfg],
          [plugin |-> p, version |-> v, plugin_settings |-> cfg,
           restart |-> TRUE, collectstatic |-> TRUE, install |-> TRUE],
          NoUpgrade, "install_read_requirements")

\* req = self.get_requirements_parser(): cat plugin_requirements.txt (raises when
\* the cat fails).
InstallReadRequirements(w) ==
    /\ status[w] = "running" /\ pc[w] = "install_read_requirements"
    /\ IF reqFile.exists
       THEN /\ req' = [req EXCEPT ![w] = ReqLoads(reqFile.text)]
            /\ Goto(w, "install_write_requirements")
            /\ UNCHANGED <<status, data>>
       ELSE /\ Raise(w)
            /\ UNCHANGED req
    /\ UNCHANGED <<envVars, job, call, plugins, disabled, log, pre, lastPoll, up, roundTrip>>

\* if req.add(plugin_req): self.write_requirements(req); then, if install, git (for
\* a private plugin) and pip install -r on every node of the NetBox node groups.
InstallWriteRequirements(w) ==
    /\ status[w] = "running" /\ pc[w] = "install_write_requirements"
    /\ LET plugin == PluginByName(call[w].plugin)
           added == ReqAdd(req[w], PluginReq(plugin, call[w].version))
           pip == IF ~call[w].install THEN <<>>
                  ELSE (IF plugin.private THEN ExecOnAll(NbNodeIds, "apt-get install -y git")
                        ELSE <<>>)
                       \o ExecOnAll(NbNodeIds, "pip install -r plugin_requirements.txt")
       IN  /\ req' = [req EXCEPT ![w] = added]
           /\ reqFile' = File(ReqDumps(added))
           /\ Logged(w, <<WriteEvent(REQUIREMENTS_FILE_NAME)>> \o pip)
    /\ Goto(w, "install_load_plugins")
    /\ UNCHANGED <<nbVars, pluginsFile, disabledFile, job, status, data, call, plugins, disabled, pre, lastPoll, up, roundTrip>>

\* plugins = self.load_plugins()
InstallLoadPlugins(w) ==
    /\ status[w] = "running" /\ pc[w] = "install_load_plugins"
    /\ plugins' = [plugins EXCEPT ![w] = load_plugins(pluginsFile)]
    /\ Goto(w, "install_load_disabled")
    /\ UNCHANGED <<envVars, job, status, data, call, req, disabled, log, pre, lastPoll, up, roundTrip>>

\* disabled_plugins = self.load_plugins(file_name=DISABLED_PLUGINS_FILE_NAME)
InstallLoadDisabled(w) ==
    /\ status[w] = "running" /\ pc[w] = "install_load_disabled"
    /\ disabled' = [disabled EXCEPT ![w] = load_plugins(disabledFile)]
    /\ Goto(w, "install_dump_disabled")
    /\ UNCHANGED <<envVars, job, status, data, call, req, plugins, log, pre, lastPoll, up, roundTrip>>

\* if app_label in disabled_plugins: pop it and dump disabled_plugins.yaml
InstallDumpDisabled(w) ==
    /\ status[w] = "running" /\ pc[w] = "install_dump_disabled"
    /\ LET label == PluginByName(call[w].plugin).app_label
       IN  IF label \in DOMAIN disabled[w]
           THEN /\ disabled' = [disabled EXCEPT ![w] = Pop(disabled[w], label)]
                /\ disabledFile' = dump_plugins(Pop(disabled[w], label))
                /\ Logged(w, <<WriteEvent(DISABLED_PLUGINS_FILE_NAME)>>)
           ELSE UNCHANGED <<disabled, disabledFile, log>>
    /\ Goto(w, "install_dump_plugins")
    /\ UNCHANGED <<nbVars, pluginsFile, reqFile, job, status, data, call, req, plugins, pre, lastPoll, up, roundTrip>>

\* A bug: the submitted settings are stored as they are, None included.
InstallSettingsAsGiven(cfg) == cfg

\* plugins[app_label] = plugin_settings or {}
InstallSettings(cfg) == IF cfg = None THEN EmptySettings ELSE cfg

\* plugins[app_label] = plugin_settings or {}; self.dump_plugins(plugins); then
\* collectstatic on every cp node when asked for.
InstallDumpPlugins(w) ==
    /\ status[w] = "running" /\ pc[w] = "install_dump_plugins"
    /\ LET label == PluginByName(call[w].plugin).app_label
           new == Put(plugins[w], label, InstallSettings(call[w].plugin_settings))
           static == IF call[w].collectstatic
                     THEN ExecOnAll(NodesOf(NODE_GROUP_CP), "manage.py collectstatic")
                     ELSE <<>>
       IN  /\ plugins' = [plugins EXCEPT ![w] = new]
           /\ pluginsFile' = dump_plugins(new)
           /\ Logged(w, <<WriteEvent(PLUGINS_FILE_NAME)>> \o static)
    /\ Goto(w, "install_restart")
    /\ UNCHANGED <<nbVars, disabledFile, reqFile, job, status, data, call, req, disabled, pre, lastPoll, up, roundTrip>>

\* if restart: return self.restart_nodes(nb node groups, lazy=True); the call
\* returns to its caller (the job, or upgrade's loop).
InstallRestart(w) ==
    /\ status[w] = "running" /\ pc[w] = "install_restart"
    /\ Logged(w, IF call[w].restart THEN restart_nodes_lazy(NbGroupNames) ELSE <<>>)
    /\ Goto(w, IF job[w].func = "upgrade" THEN "upgrade_next_plugin" ELSE "return")
    /\ UNCHANGED <<envVars, job, status, data, call, req, plugins, disabled, pre, lastPoll, up, roundTrip>>

-----------------------------------------------------------------------------
(* PaaSNetBox.uninstall_plugin                                              *)

StartUninstall(w, p) ==
    Begin(w, [func |-> "uninstall_plugin", plugin |-> p, version |-> NoTag,
              plugin_settings |-> None],
          NoCall, NoUpgrade, "uninstall_load_plugins")

\* plugins = self.load_plugins()
UninstallLoadPlugins(w) ==
    /\ status[w] = "running" /\ pc[w] = "uninstall_load_plugins"
    /\ plugins' = [plugins EXCEPT ![w] = load_plugins(pluginsFile)]
    /\ Goto(w, "uninstall_load_disabled")
    /\ UNCHANGED <<envVars, job, status, data, call, req, disabled, log, pre, lastPoll, up, roundTrip>>

\* disabled_plugins = self.load_plugins(file_name=DISABLED_PLUGINS_FILE_NAME)
UninstallLoadDisabled(w) ==
    /\ status[w] = "running" /\ pc[w] = "uninstall_load_disabled"
    /\ disabled' = [disabled EXCEPT ![w] = load_plugins(disabledFile)]
    /\ Goto(w, "uninstall_dump")
    /\ UNCHANGED <<envVars, job, status, data, call, req, plugins, log, pre, lastPoll, up, roundTrip>>

\* A bug: only plugins.yaml is looked at, a disabled plugin stays listed.
UninstallPopEnabledOnly(label, ps, ds) ==
    IF label \in DOMAIN ps
    THEN [plugins |-> Pop(ps, label), disabled |-> ds, dump |-> PLUGINS_FILE_NAME]
    ELSE [plugins |-> ps, disabled |-> ds, dump |-> None]

\* if app_label in plugins: plugins.pop(app_label)
\* elif app_label in disabled_plugins: disabled_plugins.pop(app_label)
\* The dicts afterwards and the file that is dumped, if any.
UninstallPop(label, ps, ds) ==
    IF label \in DOMAIN ps
    THEN [plugins |-> Pop(ps, label), disabled |-> ds, dump |-> PLUGINS_FILE_NAME]
    ELSE IF label \in DOMAIN ds
    THEN [plugins |-> ps, disabled |-> Pop(ds, label), dump |-> DISABLED_PLUGINS_FILE_NAME]
    ELSE [plugins |-> ps, disabled |-> ds, dump |-> None]

\* The entry is removed from the file that lists it, and that file is dumped.
UninstallDump(w) ==
    /\ status[w] = "running" /\ pc[w] = "uninstall_dump"
    /\ LET label == PluginByName(job[w].plugin).app_label
           r == UninstallPop(label, plugins[w], disabled[w])
       IN  /\ plugins' = [plugins EXCEPT ![w] = r.plugins]
           /\ disabled' = [disabled EXCEPT ![w] = r.disabled]
           /\ pluginsFile' = IF r.dump = PLUGINS_FILE_NAME
                             THEN dump_plugins(r.plugins) ELSE pluginsFile
           /\ disabledFile' = IF r.dump = DISABLED_PLUGINS_FILE_NAME
                              THEN dump_plugins(r.disabled) ELSE disabledFile
           /\ Logged(w, IF r.dump = None THEN <<>> ELSE <<WriteEvent(r.dump)>>)
    /\ Goto(w, "uninstall_read_requirements")
    /\ UNCHANGED <<nbVars, reqFile, job, status, data, call, req, pre, lastPoll, up, roundTrip>>

\* req = self.get_requirements_parser()
UninstallReadRequirements(w) ==
    /\ status[w] = "running" /\ pc[w] = "uninstall_read_requirements"
    /\ IF reqFile.exists
       THEN /\ req' = [req EXCEPT ![w] = ReqLoads(reqFile.text)]
            /\ Goto(w, "uninstall_write_requirements")
            /\ UNCHANGED <<status, data>>
       ELSE /\ Raise(w)
            /\ UNCHANGED req
    /\ UNCHANGED <<envVars, job, call, plugins, disabled, log, pre, lastPoll, up, roundTrip>>

\* if req.remove(plugin.get("name")): write_requirements(req) and pip uninstall
\* on every node of the NetBox node groups.
UninstallWriteRequirements(w) ==
    /\ status[w] = "running" /\ pc[w] = "uninstall_write_requirements"
    /\ LET removed == ReqRemove(req[w], BareLine(job[w].plugin))
       IN  IF removed.ok
           THEN /\ req' = [req EXCEPT ![w] = removed.reqs]
                /\ reqFile' = File(ReqDumps(removed.reqs))
                /\ Logged(w, <<WriteEvent(REQUIREMENTS_FILE_NAME)>>
                             \o ExecOnAll(NbNodeIds, "pip uninstall -y"))
           ELSE UNCHANGED <<req, reqFile, log>>
    /\ Goto(w, "uninstall_restart")
    /\ UNCHANGED <<nbVars, pluginsFile, disabledFile, job, status, data, call, plugins, disabled, pre, lastPoll, up, roundTrip>>

\* return self.restart_nodes(nb node groups, lazy=True)
UninstallRestart(w) ==
    /\ status[w] = "running" /\ pc[w] = "uninstall_restart"
    /\ Logged(w, restart_nodes_lazy(NbGroupNames))
    /\ Goto(w, "return")
    /\ UNCHANGED <<envVars, job, status, data, call, req, plugins, disabled, pre, lastPoll, up, roundTrip>>

-----------------------------------------------------------------------------
(* PaaSNetBox._enable_disable_plugin, disable_plugin, enable_plugin.        *)
(* disable_plugin moves from plugins.yaml to disabled_plugins.yaml,         *)
(* enable_plugin the other way; plugins[w] and disabled[w] hold the dicts   *)
(* loaded from plugins.yaml and disabled_plugins.yaml.                      *)

StartDisable(w, p) ==
    Begin(w, [func |-> "disable_plugin", plugin |-> p, version |-> NoTag,
              plugin_settings |-> None],
          NoCall, NoUpgrade, "move_load_source")

StartEnable(w, p) ==
    Begin(w, [func |-> "enable_plugin", plugin |-> p, version |-> NoTag,
              plugin_settings |-> None],
          NoCall, NoUpgrade, "move_load_source")

\* The source file of the move is plugins.yaml for disable_plugin.
SourceIsPlugins(w) == job[w].func = "disable_plugin"

\* source_plugins = self.load_plugins(file_name=source_file)
MoveLoadSource(w) ==
    /\ status[w] = "running" /\ pc[w] = "move_load_source"
    /\ IF SourceIsPlugins(w)
       THEN /\ plugins' = [plugins EXCEPT ![w] = load_plugins(pluginsFile)]
            /\ UNCHANGED disabled
       ELSE /\ disabled' = [disabled EXCEPT ![w] = load_plugins(disabledFile)]
            /\ UNCHANGED plugins
    /\ Goto(w, "move_load_dest")
    /\ UNCHANGED <<envVars, job, status, data, call, req, log, pre, lastPoll, up, roundTrip>>

\* dest_plugins = self.load_plugins(file_name=dest_file); when the app label is not
\* in source_plugins nothing is moved.
MoveLoadDest(w) ==
    /\ status[w] = "running" /\ pc[w] = "move_load_dest"
    /\ LET label == PluginByName(job[w].plugin).app_label
           source == IF SourceIsPlugins(w) THEN plugins[w] ELSE disabled[w]
       IN  /\ IF SourceIsPlugins(w)
              THEN /\ disabled' = [disabled EXCEPT ![w] = load_plugins(disabledFile)]
                   /\ UNCHANGED plugins
              ELSE /\ plugins' = [plugins EXCEPT ![w] = load_plugins(pluginsFile)]
                   /\ UNCHANGED disabled
           /\ Goto(w, IF label \in DOMAIN source THEN "move_dump_source" ELSE "move_restart")
    /\ UNCHANGED <<envVars, job, status, data, call, req, log, pre, lastPoll, up, roundTrip>>

\* A bug: the entry arrives in the destination file without its settings.
MovedDestWithoutSettings(source, dest, label) == Put(dest, label, EmptySettings)

\* A bug: the entry is copied to the destination and stays in the source.
MovedSourceKept(source, label) == source

\* dest_plugins[app_label] = source_plugins.pop(app_label)
MovedSource(source, label) == Pop(source, label)
MovedDest(source, dest, label) == Put(dest, label, source[label])

\* dest_plugins[app_label] = source_plugins.pop(app_label);
\* self.dump_plugins(source_plugins, file_name=source_file)
MoveDumpSource(w) ==
    /\ status[w] = "running" /\ pc[w] = "move_dump_source"
    /\ LET label == PluginByName(job[w].plugin).app_label
       IN  IF SourceIsPlugins(w)
           THEN /\ plugins' = [plugins EXCEPT ![w] = MovedSource(plugins[w], label)]
                /\ disabled' = [disabled EXCEPT ![w] = MovedDest(plugins[w], disabled[w], label)]
                /\ pluginsFile' = dump_plugins(MovedSource(plugins[w], label))
                /\ Logged(w, <<WriteEvent(PLUGINS_FILE_NAME)>>)
                /\ UNCHANGED disabledFile
           ELSE /\ disabled' = [disabled EXCEPT ![w] = MovedSource(disabled[w], label)]
                /\ plugins' = [plugins EXCEPT ![w] = MovedDest(disabled[w], plugins[w], label)]
                /\ disabledFile' = dump_plugins(MovedSource(disabled[w], label))
                /\ Logged(w, <<WriteEvent(DISABLED_PLUGINS_FILE_NAME)>>)
                /\ UNCHANGED pluginsFile
    /\ Goto(w, "move_dump_dest")
    /\ UNCHANGED <<nbVars, reqFile, job, status, data, call, req, pre, lastPoll, up, roundTrip>>

\* self.dump_plugins(dest_plugins, file_name=dest_file)
MoveDumpDest(w) ==
    /\ status[w] = "running" /\ pc[w] = "move_dump_dest"
    /\ IF SourceIsPlugins(w)
       THEN /\ disabledFile' = dump_plugins(disabled[w])
            /\ Logged(w, <<WriteEvent(DISABLED_PLUGINS_FILE_NAME)>>)
            /\ UNCHANGED pluginsFile
       ELSE /\ pluginsFile' = dump_plugins(plugins[w])
            /\ Logged(w, <<WriteEvent(PLUGINS_FILE_NAME)>>)
            /\ UNCHANGED disabledFile
    /\ Goto(w, "move_restart")
    /\ UNCHANGED <<nbVars, reqFile, job, status, data, call, req, plugins, disabled, pre, lastPoll, up, roundTrip>>

\* disable_plugin / enable_plugin: return self.restart_nodes(..., lazy=True)
MoveRestart(w) ==
    /\ status[w] = "running" /\ pc[w] = "move_restart"
    /\ Logged(w, restart_nodes_lazy(NbGroupNames))
    /\ Goto(w, "return")
    /\ UNCHANGED <<envVars, job, status, data, call, req, plugins, disabled, pre, lastPoll, up, roundTrip>>

-----------------------------------------------------------------------------
(* Spec: one worker runs plugin lifecycle jobs one after the other.         *)

\* NetBoxPluginInstallForm: the version choices are filter_releases(plugin), the
\* releases compatible with the running NetBox.
VersionChoices(p) == SeqRange(filter_releases(PluginByName(p), netboxVersion))

InitWorkers ==
    /\ job = [w \in Workers |-> NoJob]
    /\ status = [w \in Workers |-> "idle"]
    /\ data = [w \in Workers |-> NoData]
    /\ pc = [w \in Workers |-> "idle"]
    /\ call = [w \in Workers |-> NoCall]
    /\ req = [w \in Workers |-> <<>>]
    /\ plugins = [w \in Workers |-> EmptyDict]
    /\ disabled = [w \in Workers |-> EmptyDict]
    /\ log = [w \in Workers |-> <<>>]
    /\ pre = [w \in Workers |-> NoSnapshot]
    /\ lastPoll = [w \in Workers |-> NoPoll]
    /\ up = [w \in Workers |-> NoUpgrade]
    /\ roundTrip = [w \in Workers |-> NoRoundTrip]

\* A fresh environment: no plugin is configured; plugin_requirements.txt may not
\* have been created yet.
InitFiles ==
    /\ pluginsFile \in {AbsentFile, File(<<>>)}
    /\ disabledFile = AbsentFile
    /\ reqFile \in {AbsentFile, File(<<>>)}

\* The NetBox that runs before any plugin is installed.
InitNetBox ==
    /\ netboxVersion = 1
    /\ settingsPlugins = {}
    /\ settingsConfig = EmptyDict
    /\ addonInstalled = FALSE
    /\ running = {}

\* The PaaS clients NetBoxConfiguration.paas hands out: one per environment name.
PaaSClients == {"env-netbox", "env-storage"}

NoAccess == [client |-> "none", method |-> "none", info |-> 0, requested |-> FALSE]

\* No client has asked for its environment's information yet.
InitClients ==
    /\ envInfo = [e \in PaaSClients |-> 1]
    /\ envInfoCache = <<>>
    /\ envInfoRequests = [i \in PaaSClients |-> 0]
    /\ lastAccess = NoAccess

\* The scripts run_script is called for: ncp-restart-<node group> and
\* ncp-upgrade-netbox, each with the node group it is about.
ScriptIds == {[name |-> "ncp-restart", target |-> "cp"],
              [name |-> "ncp-upgrade-netbox", target |-> "worker"]}

NoScriptCall == [called |-> FALSE, id |-> [name |-> "none", target |-> "none"],
                 code |-> None, delay |-> 0, cleanup |-> "none", existed |-> FALSE,
                 created |-> FALSE, outcome |-> "none", scheduled |-> <<>>]

\* No script is stored and no task is scheduled.
InitScripts ==
    /\ scripts = [id \in ScriptIds |-> None]
    /\ tasks = <<>>
    /\ scriptCall = NoScriptCall

NoUpgrades == [called |-> FALSE, include_patch |-> FALSE, result |-> <<>>]

\* The registry has not been asked.
InitRegistry ==
    /\ registry = <<>>
    /\ upgrades = NoUpgrades

\* A view's answer: the job was enqueued, or the form / serializer / check_actions
\* rejected the request with these errors, or the view raised.
NoQueuedJob == [func |-> "none", plugin |-> None, version |-> NoTag,
                plugin_settings |-> None, target |-> 0]
NoResponse == [entry |-> "none", outcome |-> "none", errors |-> {}, target |-> 0,
               job |-> NoQueuedJob]

\* A worker serves the queue, no license is set, nothing has been submitted.
InitSubmission ==
    /\ rqWorkers = 1
    /\ license = ""
    /\ response = NoResponse

\* The field values of a validated NetBoxDBBackup: its configuration's
\* env_name_storage, keep_backups, and whether croniter accepts its crontab.
BackupInput(storage, keep, cronOk) == [storage |-> storage, keep |-> keep, cronOk |-> cronOk]
NoInput == BackupInput("", 0, FALSE)

NoValidation == [model |-> "none", op |-> "none", existed |-> FALSE, errors |-> {},
                 job |-> "none", input |-> NoInput]

Configuration(pk, storage) == [pk |-> pk, env_name_storage |-> storage]
DBBackup(pk, env, keep) == [pk |-> pk, netbox_env |-> env, keep_backups |-> keep]

\* The one NetBoxConfiguration the views work on; a NetBoxDBBackup when the
\* db-backup addon is installed.
InitModels ==
    /\ configurations = {Configuration(1, IF addonInstalled THEN "env-storage" ELSE "")}
    /\ dbBackups = IF addonInstalled THEN {DBBackup(1, 1, 1)} ELSE {}
    /\ nextPk = [configuration |-> 2, backup |-> IF addonInstalled THEN 2 ELSE 1]
    /\ validation = NoValidation

Init == InitNetBox /\ InitFiles /\ InitWorkers /\ InitSubmission /\ InitModels
        /\ InitClients /\ InitRegistry /\ InitScripts

StartPluginJob(w) ==
    \E p \in PluginNames :
        \/ \E v \in VersionChoices(p), cfg \in SubmittedSettings : StartInstall(w, p, v, cfg)
        \/ StartUninstall(w, p)
        \/ StartDisable(w, p)
        \/ StartEnable(w, p)

PluginJobStep(w) ==
    \/ InstallReadRequirements(w)
    \/ InstallWriteRequirements(w)
    \/ InstallLoadPlugins(w)
    \/ InstallLoadDisabled(w)
    \/ InstallDumpDisabled(w)
    \/ InstallDumpPlugins(w)
    \/ InstallRestart(w)
    \/ UninstallLoadPlugins(w)
    \/ UninstallLoadDisabled(w)
    \/ UninstallDump(w)
    \/ UninstallReadRequirements(w)
    \/ UninstallWriteRequirements(w)
    \/ UninstallRestart(w)
    \/ MoveLoadSource(w)
    \/ MoveLoadDest(w)
    \/ MoveDumpSource(w)
    \/ MoveDumpDest(w)
    \/ MoveRestart(w)
    \/ JobReturn(w)

Next == StartPluginJob("w1") \/ PluginJobStep("w1")

Spec == Init /\ [][Next]_vars

-----------------------------------------------------------------------------
(* The platform's running actions, PaaS.get_actions and                     *)
(* PaaSNetBox.is_db_backup_running / db_backup.                             *)

ENV_NAME == "env-netbox"            \* os.environ["ENV_NAME"]
AddonUniqueName == "db-backup-1"    \* addon.get("uniqueName")

Action(env, app, act) == [env |-> env, appUniqueName |-> app, action |-> act]

\* The addon's backup, another action of the addon, a backup in another environment.
OurBackup == Action(ENV_NAME, AddonUniqueName, "backup")
PlatformActions ==
    {OurBackup,
     Action(ENV_NAME, AddonUniqueName, "restore"),
     Action("env-storage", AddonUniqueName, "backup")}

\* PaaS.get_actions: the current actions of this environment.
get_actions(current) == {a \in current : a.env = ENV_NAME}

\* A bug: any running action of the addon counts as a running backup.
is_db_backup_running_any_action(current, app_unique_name) ==
    \E a \in get_actions(current) : a.appUniqueName = app_unique_name

\* PaaSNetBox.is_db_backup_running
is_db_backup_running(current, app_unique_name) ==
    \E a \in get_actions(current) :
        a.appUniqueName = app_unique_name /\ a.action = "backup"

\* The platform starts an action (a scheduled backup, a user's action) or ends one.
ActionStarts ==
    /\ \E a \in PlatformActions \ running : running' = running \cup {a}
    /\ UNCHANGED <<settingsVars, webVars, modelVars, fileVars, jobVars>>

ActionEnds ==
    /\ \E a \in running : running' = running \ {a}
    /\ UNCHANGED <<settingsVars, webVars, modelVars, fileVars, jobVars>>

\* NetBoxDBBackup.backup enqueues db_backup for the installed addon.
StartBackup(w) ==
    /\ addonInstalled
    /\ Begin(w, [func |-> "db_backup", plugin |-> None, version |-> NoTag,
                 plugin_settings |-> None],
             NoCall, NoUpgrade, "backup_poll")

\* while self.is_db_backup_running(app_unique_name): one evaluation of the condition.
BackupPoll(w) ==
    /\ status[w] = "running" /\ pc[w] = "backup_poll"
    /\ LET busy == is_db_backup_running(running, AddonUniqueName)
       IN  /\ lastPoll' = [lastPoll EXCEPT ![w].result = IF busy THEN "running" ELSE "clear"]
           /\ Goto(w, IF busy THEN "backup_sleep" ELSE "backup_execute")
    /\ UNCHANGED <<envVars, job, status, data, call, req, plugins, disabled, log, pre, up, roundTrip>>

\* time.sleep(30)
BackupSleep(w) ==
    /\ status[w] = "running" /\ pc[w] = "backup_sleep"
    /\ lastPoll' = [lastPoll EXCEPT ![w].waited = TRUE]
    /\ Goto(w, "backup_poll")
    /\ UNCHANGED <<envVars, job, status, data, call, req, plugins, disabled, log, pre, up, roundTrip>>

BackupEvent == Event("ExecuteAction", AddonUniqueName, "backup", 0)

\* A bug: the action is issued again after the first call (a retry).
BackupExecuteTwice(w) ==
    /\ status[w] = "running" /\ pc[w] = "backup_execute"
    /\ Logged(w, <<BackupEvent, BackupEvent>>)
    /\ running' = running \cup {OurBackup}
    /\ Goto(w, IF job[w].func = "upgrade" THEN "upgrade_next_plugin" ELSE "return")
    /\ UNCHANGED <<settingsVars, webVars, modelVars, fileVars, job, status, data, call, req, plugins,
                   disabled, pre, lastPoll, up, roundTrip>>

\* return self.execute_action(app_unique_name, action="backup"): the platform
\* starts the addon's backup.
BackupExecute(w) ==
    /\ status[w] = "running" /\ pc[w] = "backup_execute"
    /\ Logged(w, <<BackupEvent>>)
    /\ running' = running \cup {OurBackup}
    /\ Goto(w, IF job[w].func = "upgrade" THEN "upgrade_next_plugin" ELSE "return")
    /\ UNCHANGED <<settingsVars, webVars, modelVars, fileVars, job, status, data, call, req, plugins,
                   disabled, pre, lastPoll, up, roundTrip>>

-----------------------------------------------------------------------------
(* PaaSNetBox.upgrade                                                       *)

StartUpgrade(w, v) ==
    Begin(w, [func |-> "upgrade", plugin |-> None, version |-> NoTag,
              plugin_settings |-> None],
          NoCall, [version |-> v, idx |-> 1], "upgrade_addon")

\* A bug: the upgrade does not look for the db-backup addon and takes no backup.
UpgradeAddonNoBackup(w) ==
    /\ status[w] = "running" /\ pc[w] = "upgrade_addon"
    /\ Goto(w, "upgrade_next_plugin")
    /\ UNCHANGED <<envVars, job, status, data, call, req, plugins, disabled, log, pre,
                   lastPoll, up, roundTrip>>

\* if addon := self.get_installed_addon("db-backup", NODE_GROUP_SQLDB):
\*     self.db_backup(app_unique_name=addon.get("uniqueName"))
UpgradeAddon(w) ==
    /\ status[w] = "running" /\ pc[w] = "upgrade_addon"
    /\ Goto(w, IF addonInstalled THEN "backup_poll" ELSE "upgrade_next_plugin")
    /\ UNCHANGED <<envVars, job, status, data, call, req, plugins, disabled, log, pre,
                   lastPoll, up, roundTrip>>

\* The catalogue plugins at or after place i whose app label is in settings.PLUGINS.
InstalledFrom(i) ==
    {k \in CatalogueIdx : k >= i /\ Catalogue[k].app_label \in settingsPlugins}

\* settings.PLUGINS_CONFIG.get(app_label, {})
ConfigOf(label) ==
    IF label \in DOMAIN settingsConfig THEN settingsConfig[label] ELSE EmptySettings

\* for plugin_name, plugin in utils.get_plugins_list().items():
\*     if plugin.get('app_label') in settings.PLUGINS:
\*         plugin_version = utils.filter_releases(plugin, version)[0]
\*         self.install_plugin(..., restart=False, collectstatic=False, install=False)
\* One turn of the loop up to the call; [0] of an empty list raises IndexError.
UpgradeNextPlugin(w) ==
    /\ status[w] = "running" /\ pc[w] = "upgrade_next_plugin"
    /\ IF InstalledFrom(up[w].idx) = {}
       THEN /\ Goto(w, "upgrade_redeploy")
            /\ UNCHANGED <<status, data, call, up>>
       ELSE LET k == CHOOSE i \in InstalledFrom(up[w].idx) :
                        \A j \in InstalledFrom(up[w].idx) : i <= j
                releases == filter_releases(Catalogue[k], up[w].version)
            IN  IF releases = <<>>
                THEN /\ Raise(w)
                     /\ UNCHANGED <<call, up>>
                ELSE /\ call' = [call EXCEPT ![w] =
                            [plugin |-> Catalogue[k].name, version |-> releases[1],
                             plugin_settings |-> ConfigOf(Catalogue[k].app_label),
                             restart |-> FALSE, collectstatic |-> FALSE, install |-> FALSE]]
                     /\ up' = [up EXCEPT ![w].idx = k + 1]
                     /\ Goto(w, "install_read_requirements")
                     /\ UNCHANGED <<status, data>>
    /\ UNCHANGED <<envVars, job, req, plugins, disabled, log, pre, lastPoll, roundTrip>>

RedeployDelay == 60000      \* RedeployContainersByGroup(delay=60000)
UpgradeScriptDelay == 10    \* run_script(name="ncp-upgrade-netbox", delay=10)

\* RedeployContainersByGroup(node_group=NODE_GROUP_CP, tag=f"v{version}", ...)
UpgradeRedeploy(w) ==
    /\ status[w] = "running" /\ pc[w] = "upgrade_redeploy"
    /\ Logged(w, <<[Event("RedeployContainersByGroup", NODE_GROUP_CP, "", RedeployDelay)
                        EXCEPT !.tag = up[w].version]>>)
    /\ Goto(w, "upgrade_collectstatic")
    /\ UNCHANGED <<envVars, job, status, data, call, req, plugins, disabled, pre,
                   lastPoll, up, roundTrip>>

\* get_master_node(NODE_GROUP_CP).get("id")
CpMasterNode == NodesOf(NODE_GROUP_CP)[1]

\* self.execute_cmd(node_id=master_node_id, command="... collectstatic ...")
UpgradeCollectstatic(w) ==
    /\ status[w] = "running" /\ pc[w] = "upgrade_collectstatic"
    /\ Logged(w, <<ExecEvent(CpMasterNode, "manage.py collectstatic")>>)
    /\ Goto(w, "upgrade_script")
    /\ UNCHANGED <<envVars, job, status, data, call, req, plugins, disabled, pre,
                   lastPoll, up, roundTrip>>

\* The NetBox node groups except the cp group.
OtherNbGroups == SelectSeq(NbGroupNames, LAMBDA g : g # NODE_GROUP_CP)

\* self.run_script(name="ncp-upgrade-netbox", code=batch_code, delay=10): one
\* RedeployContainersByGroup per other NetBox node group, to the same tag.
UpgradeScript(w) ==
    /\ status[w] = "running" /\ pc[w] = "upgrade_script"
    /\ Logged(w, <<[run_script("ncp-upgrade-netbox", "", UpgradeScriptDelay)
                        EXCEPT !.tag = up[w].version, !.groups = OtherNbGroups]>>)
    /\ Goto(w, "return")
    /\ UNCHANGED <<envVars, job, status, data, call, req, plugins, disabled, pre,
                   lastPoll, up, roundTrip>>

-----------------------------------------------------------------------------
(* SpecUpgrade: a NetBox with plugins installed; one worker runs upgrade    *)
(* and db_backup jobs while the platform starts and ends actions.           *)

MaxVersion == 3     \* the NetBox versions of the model are 1..MaxVersion

\* The files after installing the plugins of a list, in order, each at the newest
\* release for the running NetBox and with the given settings, as install_plugin does.
RECURSIVE InstalledFiles(_, _, _)
InstalledFiles(history, cfg, version) ==
    IF history = <<>>
    THEN [plugins |-> EmptyDict, req |-> <<>>]
    ELSE LET before == InstalledFiles(SubSeq(history, 1, Len(history) - 1), cfg, version)
             p == PluginByName(history[Len(history)])
         IN  [plugins |-> Put(before.plugins, p.app_label, cfg[p.name]),
              req |-> ReqAdd(before.req, PluginReq(p, filter_releases(p, version)[1]))]

\* The orders in which plugins that have a release for the version were installed.
InstallHistories(version) ==
    LET ok == {n \in PluginNames : filter_releases(PluginByName(n), version) # <<>>}
    IN  {h \in UNION {[1..n -> ok] : n \in 0..Cardinality(ok)} :
            \A i, j \in 1..Len(h) : i # j => h[i] # h[j]}

InitUpgrade ==
    /\ netboxVersion \in 1..(MaxVersion - 1)
    /\ \E h \in InstallHistories(netboxVersion), cfg \in [PluginNames -> StoredSettings] :
          LET files == InstalledFiles(h, cfg, netboxVersion)
          IN  /\ pluginsFile = dump_plugins(files.plugins)
              /\ reqFile = File(ReqDumps(files.req))
              /\ settingsPlugins = DOMAIN files.plugins
              /\ settingsConfig = files.plugins
    /\ disabledFile = AbsentFile
    /\ addonInstalled \in BOOLEAN
    /\ running = {}
    /\ InitWorkers
    /\ InitSubmission
    /\ InitClients /\ InitRegistry /\ InitScripts
    /\ InitModels

\* NetBoxUpgradeForm: the version choices are get_upgrades(include_patch=True), the
\* tags newer than the running NetBox and those of its own major.minor.
UpgradeChoices == {v \in 1..MaxVersion : v >= netboxVersion}

UpgradeJobStep(w) ==
    \/ UpgradeAddon(w)
    \/ BackupPoll(w)
    \/ BackupSleep(w)
    \/ BackupExecute(w)
    \/ UpgradeNextPlugin(w)
    \/ InstallReadRequirements(w)
    \/ InstallWriteRequirements(w)
    \/ InstallLoadPlugins(w)
    \/ InstallLoadDisabled(w)
    \/ InstallDumpDisabled(w)
    \/ InstallDumpPlugins(w)
    \/ InstallRestart(w)
    \/ UpgradeRedeploy(w)
    \/ UpgradeCollectstatic(w)
    \/ UpgradeScript(w)
    \/ JobReturn(w)

NextUpgrade ==
    \/ \E v \in UpgradeChoices : StartUpgrade("w1", v)
    \/ StartBackup("w1")
    \/ UpgradeJobStep("w1")
    \/ ActionStarts
    \/ ActionEnds

SpecUpgrade == InitUpgrade /\ [][NextUpgrade]_vars

-----------------------------------------------------------------------------
(* Submissions: the web forms' clean methods, the REST plugin endpoints and *)
(* the views that enqueue a job when the validation passes.                 *)

MaxRQWorkers == 1   \* at most this many RQ workers serve the queue

Licenses == {"", "lic-valid", "lic-revoked"}

\* requests.get(plugin.github_api_url, Authorization: Bearer <license>).ok
RepoAccessible(lic) == lic = "lic-valid"

Error(field, code) == [field |-> field, code |-> code, plugin |-> None, version |-> 0]
NoWorkersError == Error("__all__", "no_rq_workers")
ActionsRunningError == Error("__all__", "actions_running")

\* A bug: only the RQ workers are checked.
check_actions_workers_only(n, current) ==
    IF n = 0 THEN {NoWorkersError} ELSE {}

\* NetBoxPluginViewSet.check_actions: the ValidationError raised, if any.
check_actions(n, current) ==
    IF n = 0 THEN {NoWorkersError}
    ELSE IF get_actions(current) # {} THEN {ActionsRunningError}
    ELSE {}

\* ConfirmationForm.clean
ConfirmationForm_clean(n, current) ==
    IF n = 0 THEN {NoWorkersError}
    ELSE IF get_actions(current) # {} THEN {ActionsRunningError}
    ELSE {}

\* NetBoxSettingsForm.clean
NetBoxSettingsForm_clean(n, current) ==
    IF n = 0 THEN {NoWorkersError}
    ELSE IF get_actions(current) # {} THEN {ActionsRunningError}
    ELSE {}

\* The keys of a submitted configuration.
SettingsKeys(cfg) == IF cfg = SomeSettings THEN {"top_level_menu"} ELSE {}

\* release.netbox.required_settings of the release with the selected tag, [] if none.
RequiredSettings(plugin, version) ==
    LET hits == {i \in 1..Len(plugin.releases) : plugin.releases[i].tag = version}
    IN  IF hits = {} THEN {}
        ELSE plugin.releases[CHOOSE i \in hits : \A j \in hits : i <= j].required_settings

\* NetBoxPluginInstallForm.clean: [errors, raised]; version is NoTag when the
\* version field did not validate. configuration.keys() raises on None.
NetBoxPluginInstallForm_clean(n, current, lic, name, version, cfg) ==
    LET plugin == PluginByName(name)
        required == RequiredSettings(plugin, version)
    IN  IF n = 0 THEN [errors |-> {NoWorkersError}, raised |-> FALSE]
        ELSE IF get_actions(current) # {}
        THEN [errors |-> {ActionsRunningError}, raised |-> FALSE]
        ELSE IF plugin.private /\ lic = ""
        THEN [errors |-> {Error("name", "license_required")}, raised |-> FALSE]
        ELSE IF plugin.private /\ ~RepoAccessible(lic)
        THEN [errors |-> {Error("name", "not_accessible")}, raised |-> FALSE]
        ELSE IF required # {} /\ cfg = None
        THEN [errors |-> {}, raised |-> TRUE]
        ELSE IF ~(required \subseteq SettingsKeys(cfg))
        THEN [errors |-> {Error("configuration", "missing_required_settings")},
              raised |-> FALSE]
        ELSE [errors |-> {}, raised |-> FALSE]

\* A bug: the upgrade checks pass whatever is installed.
upgrade_checks_pass(installed, version) == [ok |-> TRUE, plugin |-> None, version |-> 0]

\* PaaSNetBox.upgrade_checks: (True, "") or (False, "Plugin <name> does not have a
\* release for version <version>") for the first installed catalogue plugin
\* without a compatible release.
upgrade_checks(installed, version) ==
    LET bad == {k \in CatalogueIdx :
                    /\ Catalogue[k].app_label \in installed
                    /\ filter_releases(Catalogue[k], version) = <<>>}
    IN  IF bad = {} THEN [ok |-> TRUE, plugin |-> None, version |-> 0]
        ELSE [ok |-> FALSE,
              plugin |-> Catalogue[CHOOSE k \in bad : \A j \in bad : k <= j].name,
              version |-> version]

\* NetBoxUpgradeForm.clean; version is 0 (cleaned_data has none) when the version
\* field did not validate, and filter_releases then takes settings.VERSION.
NetBoxUpgradeForm_clean(n, current, installed, version) ==
    LET checks == upgrade_checks(installed, IF version = 0 THEN netboxVersion ELSE version)
    IN  IF n = 0 THEN {NoWorkersError}
        ELSE IF ~checks.ok
        THEN {[field |-> "version", code |-> "no_release",
               plugin |-> checks.plugin, version |-> checks.version]}
        ELSE IF get_actions(current) # {} THEN {ActionsRunningError}
        ELSE {}

\* PaaSJob.enqueue's job: the function and its keyword arguments.
QueuedJob(func, plugin, version, cfg, target) ==
    [func |-> func, plugin |-> plugin, version |-> version, plugin_settings |-> cfg,
     target |-> target]

\* form.is_valid() / raise_exception: with errors the view answers them; else it
\* enqueues the job.
Answer(entry, errors, raised, target, j) ==
    /\ response' =
          IF raised
          THEN [entry |-> entry, outcome |-> "raised", errors |-> {}, target |-> target,
                job |-> NoQueuedJob]
          ELSE IF errors # {}
          THEN [entry |-> entry, outcome |-> "rejected", errors |-> errors,
                target |-> target, job |-> NoQueuedJob]
          ELSE [entry |-> entry, outcome |-> "enqueued", errors |-> {}, target |-> target,
                job |-> j]
    /\ UNCHANGED <<settingsVars, running, rqWorkers, license, modelVars, fileVars, jobVars>>

\* The releases of a plugin, compatible or not: what a client may send as version.
AllTags(name) ==
    {PluginByName(name).releases[i].tag : i \in 1..Len(PluginByName(name).releases)}

\* NetBoxPluginInstallView.post
PostInstall ==
    \E name \in PluginNames, cfg \in SubmittedSettings :
        \E version \in AllTags(name) :
            LET valid == version \in VersionChoices(name)
                fieldErrors == IF valid THEN {} ELSE {Error("version", "invalid_choice")}
                cleaned == NetBoxPluginInstallForm_clean(
                               rqWorkers, running, license, name,
                               IF valid THEN version ELSE NoTag, cfg)
            IN  Answer("install_form", fieldErrors \cup cleaned.errors, cleaned.raised, 0,
                       QueuedJob("install_plugin", name, version, cfg, 0))

ConfirmedFuncs == {"uninstall_plugin", "enable_plugin", "disable_plugin"}

\* NetBoxPluginUninstallView.post, NetBoxPluginEnableView.post,
\* NetBoxPluginDisableView.post
PostConfirmation ==
    \E func \in ConfirmedFuncs, name \in PluginNames, confirm \in BOOLEAN :
        LET fieldErrors == IF confirm THEN {} ELSE {Error("confirm", "required")}
        IN  Answer(func, fieldErrors \cup ConfirmationForm_clean(rqWorkers, running),
                   FALSE, 0, QueuedJob(func, name, NoTag, None, 0))

\* NetBoxPluginUpgradesView.post
PostUpgrade ==
    \E version \in 1..MaxVersion :
        LET valid == version \in UpgradeChoices
            fieldErrors == IF valid THEN {} ELSE {Error("version", "invalid_choice")}
            errors == NetBoxUpgradeForm_clean(rqWorkers, running, settingsPlugins,
                                              IF valid THEN version ELSE 0)
        IN  Answer("upgrade_form", fieldErrors \cup errors, FALSE, version,
                   QueuedJob("upgrade", None, NoTag, None, version))

\* NetBoxSettingsView.post
PostSettings ==
    \E valid \in BOOLEAN :
        LET fieldErrors == IF valid THEN {} ELSE {Error("setting", "invalid")}
        IN  Answer("settings_form",
                   fieldErrors \cup NetBoxSettingsForm_clean(rqWorkers, running),
                   FALSE, 0, QueuedJob("apply_settings", None, NoTag, None, 0))

UnknownPlugin == "no-such-plugin"
PluginIds == PluginNames \cup {UnknownPlugin}

\* NetBoxPluginInstallSerializer.validate_plugin_id
validate_plugin_id(value) ==
    IF value \notin PluginNames THEN {Error("plugin_id", "not_found")} ELSE {}

\* self.plugins.get(pk)
PluginOrNone(pk) == IF pk \in PluginNames THEN pk ELSE None

\* What a client sends as version for a plugin: one of its tags (the serializer
\* takes any string).
SentTags(id) == IF id \in PluginNames THEN AllTags(id) ELSE {NoTag}

\* The optional configuration of a REST request: left out, or given.
SentSettings == {None, SomeSettings}

\* NetBoxPluginViewSet.create
ApiCreate ==
    \E plugin_id \in PluginIds, cfg \in SentSettings :
        \E version \in SentTags(plugin_id) :
            LET invalid == validate_plugin_id(plugin_id)
                errors == IF invalid # {} THEN invalid
                          ELSE check_actions(rqWorkers, running)
            IN  Answer("api_create", errors, FALSE, 0,
                       QueuedJob("install_plugin", PluginOrNone(plugin_id), version, cfg, 0))

\* NetBoxPluginViewSet.update: the plugin is the one of the URL, the serializer
\* validates the body.
ApiUpdate ==
    \E pk \in PluginIds, cfg \in {None} :
        \E plugin_id \in {pk, UnknownPlugin}, version \in SentTags(pk) :
            LET invalid == validate_plugin_id(plugin_id)
                errors == IF invalid # {} THEN invalid
                          ELSE check_actions(rqWorkers, running)
            IN  Answer("api_update", errors, FALSE, 0,
                       QueuedJob("install_plugin", PluginOrNone(pk), version, cfg, 0))

\* NetBoxPluginViewSet.destroy
ApiDestroy ==
    \E pk \in PluginIds :
        LET errors ==
                IF pk \notin PluginNames THEN {Error("detail", "not_found")}
                ELSE IF PluginByName(pk).app_label \notin settingsPlugins
                THEN {Error("detail", "not_installed")}
                ELSE check_actions(rqWorkers, running)
        IN  Answer("api_destroy", errors, FALSE, 0,
                   QueuedJob("uninstall_plugin", PluginOrNone(pk), NoTag, None, 0))

\* An RQ worker starts or stops.
RQWorkerStarts ==
    /\ rqWorkers < MaxRQWorkers
    /\ rqWorkers' = rqWorkers + 1
    /\ UNCHANGED <<settingsVars, running, license, response, modelVars, fileVars, jobVars>>

RQWorkerStops ==
    /\ rqWorkers > 0
    /\ rqWorkers' = rqWorkers - 1
    /\ UNCHANGED <<settingsVars, running, license, response, modelVars, fileVars, jobVars>>

\* The NetBoxConfiguration is edited: its license is set, replaced or removed.
LicenseChanges ==
    /\ \E lic \in Licenses \ {license} : license' = lic
    /\ UNCHANGED <<settingsVars, running, rqWorkers, response, modelVars, fileVars, jobVars>>

\* The list of a set of plugins in the catalogue's order.
RECURSIVE InCatalogueOrder(_)
InCatalogueOrder(S) ==
    IF S = {} THEN <<>>
    ELSE LET k == CHOOSE i \in CatalogueIdx :
                    /\ Catalogue[i].name \in S
                    /\ \A j \in CatalogueIdx : Catalogue[j].name \in S => i <= j
         IN  <<Catalogue[k].name>> \o InCatalogueOrder(S \ {Catalogue[k].name})

\* A running NetBox with some plugins installed; nobody has submitted anything.
InitWeb ==
    /\ netboxVersion \in {1, 2}
    /\ \E S \in SUBSET {n \in PluginNames :
                          filter_releases(PluginByName(n), netboxVersion) # <<>>} :
          LET files == InstalledFiles(InCatalogueOrder(S),
                                      [n \in PluginNames |-> EmptySettings], netboxVersion)
          IN  /\ pluginsFile = dump_plugins(files.plugins)
              /\ reqFile = File(ReqDumps(files.req))
              /\ settingsPlugins = DOMAIN files.plugins
              /\ settingsConfig = files.plugins
    /\ disabledFile = AbsentFile
    /\ addonInstalled = FALSE
    /\ running = {}
    /\ InitWorkers
    /\ InitSubmission
    /\ InitClients /\ InitRegistry /\ InitScripts
    /\ InitModels

NextWeb ==
    \/ PostInstall
    \/ PostConfirmation
    \/ PostUpgrade
    \/ PostSettings
    \/ ApiCreate
    \/ ApiUpdate
    \/ ApiDestroy
    \/ RQWorkerStarts
    \/ RQWorkerStops
    \/ LicenseChanges
    \/ ActionStarts
    \/ ActionEnds

SpecWeb == InitWeb /\ [][NextWeb]_vars

-----------------------------------------------------------------------------
(* SpecConcurrent: two RQ workers serve the queue. PaaSJob.enqueue hands a   *)
(* job to whichever worker is free and _run_job takes no lock, so two jobs   *)
(* enqueued one after the other run at the same time, their remote calls     *)
(* interleaved in any order. Each worker runs one job, for different plugins.*)

\* A dict that gives every app label of a set of plugins the empty settings.
DictOf(names) ==
    [l \in {PluginByName(n).app_label : n \in names} |-> EmptySettings]

\* Plugins installed earlier, some of them disabled since.
InitConcurrent ==
    /\ netboxVersion = 1
    /\ \E S \in SUBSET PluginNames : \E D \in SUBSET S :
          LET files == InstalledFiles(InCatalogueOrder(S),
                                      [n \in PluginNames |-> EmptySettings], netboxVersion)
          IN  /\ pluginsFile = dump_plugins(DictOf(S \ D))
              /\ disabledFile = IF D = {} THEN AbsentFile ELSE dump_plugins(DictOf(D))
              /\ reqFile = File(ReqDumps(files.req))
              /\ settingsPlugins = DOMAIN DictOf(S \ D)
              /\ settingsConfig = DictOf(S \ D)
    /\ addonInstalled = FALSE
    /\ running = {}
    /\ InitWorkers
    /\ InitSubmission
    /\ InitModels
    /\ InitClients /\ InitRegistry /\ InitScripts

\* The two plugins the jobs are about: a public and a private one.
ConcurrentPlugins == {"netbox-acl", "netbox-dns"}

\* Worker w takes its job from the queue: a job for a plugin the other worker's
\* job is not about. The worker that takes the first job is called w1; w2
\* takes the second one while the first is running.
TakeJob(w) ==
    /\ status[w] = "idle"
    /\ w = "w2" => status["w1"] = "running"
    /\ \E p \in ConcurrentPlugins :
          /\ \A o \in Workers \ {w} : job[o].plugin # p
          /\ \/ \E v \in VersionChoices(p), cfg \in {None, SomeSettings} :
                    StartInstall(w, p, v, cfg)
             \/ StartUninstall(w, p)
             \/ StartDisable(w, p)
             \/ StartEnable(w, p)

NextConcurrent == \E w \in Workers : TakeJob(w) \/ PluginJobStep(w)

SpecConcurrent == InitConcurrent /\ [][NextConcurrent]_vars

-----------------------------------------------------------------------------
(* SpecBackups: two RQ workers run db_backup jobs for the same addon at the  *)
(* same time: manual backups (NetBoxDBBackupBackupView enqueues db_backup    *)
(* without looking at the running actions) and, on w2, the backup at the     *)
(* start of an upgrade. The addon's backups are started by these jobs only;  *)
(* the platform starts other actions and ends any.                           *)

\* A NetBox without plugins whose database has the db-backup addon.
InitBackups ==
    /\ netboxVersion = 1
    /\ settingsPlugins = {}
    /\ settingsConfig = EmptyDict
    /\ addonInstalled = TRUE
    /\ running = {}
    /\ pluginsFile = File(<<>>) /\ disabledFile = AbsentFile /\ reqFile = File(<<>>)
    /\ InitWorkers
    /\ InitSubmission
    /\ InitModels
    /\ InitClients /\ InitRegistry /\ InitScripts

\* The platform starts an action other than the addon's backup.
OtherActionStarts ==
    /\ \E a \in PlatformActions \ (running \cup {OurBackup}) : running' = running \cup {a}
    /\ UNCHANGED <<settingsVars, webVars, modelVars, fileVars, jobVars>>

BackupJobStep(w) ==
    \/ UpgradeAddon(w)
    \/ BackupPoll(w)
    \/ BackupSleep(w)
    \/ BackupExecute(w)
    \/ UpgradeNextPlugin(w)
    \/ UpgradeRedeploy(w)
    \/ UpgradeCollectstatic(w)
    \/ UpgradeScript(w)
    \/ JobReturn(w)

NextBackups ==
    \/ \E w \in Workers : StartBackup(w)
    \/ \E v \in UpgradeChoices : StartUpgrade("w2", v)
    \/ \E w \in Workers : BackupJobStep(w)
    \/ OtherActionStarts
    \/ ActionEnds

SpecBackups == InitBackups /\ [][NextBackups]_vars

-----------------------------------------------------------------------------
(* SpecBackupLive: one worker runs db_backup and upgrade jobs; a backup of   *)
(* the addon may be in progress at the beginning. The worker keeps executing *)
(* the job it runs, and a backup of the addon that is in progress comes to   *)
(* an end.                                                                   *)

InitBackupLive ==
    /\ netboxVersion = 1
    /\ settingsPlugins = {}
    /\ settingsConfig = EmptyDict
    /\ addonInstalled = TRUE
    /\ running \in {{}, {OurBackup}}
    /\ pluginsFile = File(<<>>) /\ disabledFile = AbsentFile /\ reqFile = File(<<>>)
    /\ InitWorkers
    /\ InitSubmission
    /\ InitModels
    /\ InitClients /\ InitRegistry /\ InitScripts

\* The addon's backup finishes.
BackupEnds ==
    /\ OurBackup \in running
    /\ running' = running \ {OurBackup}
    /\ UNCHANGED <<settingsVars, webVars, modelVars, fileVars, jobVars>>

NextBackupLive ==
    \/ StartBackup("w1")
    \/ \E v \in UpgradeChoices : StartUpgrade("w1", v)
    \/ BackupJobStep("w1")
    \/ OtherActionStarts
    \/ ActionEnds

SpecBackupLive ==
    /\ InitBackupLive /\ [][NextBackupLive]_vars
    /\ WF_vars(BackupJobStep("w1"))
    /\ WF_vars(BackupEnds)

-----------------------------------------------------------------------------
(* The two Django models: NetBoxConfiguration and NetBoxDBBackup. A create   *)
(* or an edit validates the instance (full_clean calls clean) and saves it   *)
(* when the validation passes; pk 0 is an unsaved instance (pk None).        *)

MaxPk == 3              \* primary keys handed out per table in the model
MaxKeepBackups == 30    \* keep_backups > 30 is rejected
MinKeepBackups == 1     \* keep_backups < 1 is rejected

StorageNames == {"", "env-storage"}
KeepChoices == {0, 1, 30, 31}

\* NetBoxConfiguration.clean: the ValidationError raised, if any. envOk: paas(env_name)
\* does not raise JelasticApiError; storageOk: paas(env_name_storage) does not;
\* licenseOk: the license is empty or starts with ghp_ / github_pat_.
NetBoxConfiguration_clean(exists, pk, storage, envOk, storageOk, licenseOk) ==
    IF exists /\ pk = 0 THEN {Error("__all__", "only_one_instance")}
    ELSE IF pk # 0 /\ ~envOk THEN {Error("__all__", "jelastic_api_error")}
    ELSE IF storage # "" /\ ~storageOk THEN {Error("__all__", "jelastic_api_error")}
    ELSE IF ~licenseOk THEN {Error("license", "invalid_license_key")}
    ELSE {}

\* A bug: a new NetBoxDBBackup is validated without looking for an existing one.
NetBoxDBBackup_clean_unguarded(exists, pk, storage, keep, cronOk) ==
    IF storage = "" THEN {Error("netbox_env", "no_backup_storage")}
    ELSE IF keep > MaxKeepBackups THEN {Error("keep_backups", "maximum")}
    ELSE IF keep < MinKeepBackups THEN {Error("keep_backups", "minimum")}
    ELSE IF ~cronOk THEN {Error("crontab", "croniter_error")}
    ELSE {}

\* A bug: the retention bounds are exclusive (30 and 1 are refused).
NetBoxDBBackup_clean_exclusive(exists, pk, storage, keep, cronOk) ==
    IF exists /\ pk = 0 THEN {Error("__all__", "only_one_instance")}
    ELSE IF storage = "" THEN {Error("netbox_env", "no_backup_storage")}
    ELSE IF keep >= MaxKeepBackups THEN {Error("keep_backups", "maximum")}
    ELSE IF keep <= MinKeepBackups THEN {Error("keep_backups", "minimum")}
    ELSE IF ~cronOk THEN {Error("crontab", "croniter_error")}
    ELSE {}

\* NetBoxDBBackup.clean: the ValidationError raised, if any. storage is
\* netbox_env.env_name_storage; cronOk: croniter accepts the crontab.
NetBoxDBBackup_clean(exists, pk, storage, keep, cronOk) ==
    IF exists /\ pk = 0 THEN {Error("__all__", "only_one_instance")}
    ELSE IF storage = "" THEN {Error("netbox_env", "no_backup_storage")}
    ELSE IF keep > MaxKeepBackups THEN {Error("keep_backups", "maximum")}
    ELSE IF keep < MinKeepBackups THEN {Error("keep_backups", "minimum")}
    ELSE IF ~cronOk THEN {Error("crontab", "croniter_error")}
    ELSE {}

\* NetBoxDBBackupForm.clean (the web form only): the ValidationError raised, if any.
NetBoxDBBackupForm_clean(n, pk, password) ==
    IF n = 0 THEN {NoWorkersError}
    ELSE IF pk = 0 /\ ~password THEN {Error("db_password", "required")}
    ELSE {}

\* The key field's validators (required, at least 40 characters).
KeyErrors(keyOk) == IF keyOk THEN {} ELSE {Error("key", "invalid")}

Validated(model, op, existed, errors, j, input) ==
    validation' = [model |-> model, op |-> op, existed |-> existed, errors |-> errors,
                   job |-> IF errors = {} THEN j ELSE "none", input |-> input]

ModelFrame == UNCHANGED <<settingsVars, running, webVars, fileVars, jobVars>>

\* NetBoxConfigurationEditView / NetBoxConfigurationViewSet.create: a new instance;
\* the field errors and clean's error are reported together.
CreateConfiguration ==
    /\ nextPk.configuration <= MaxPk
    /\ \E storage \in StorageNames, keyOk \in BOOLEAN, storageOk \in BOOLEAN,
          licenseOk \in BOOLEAN :
          LET errors == KeyErrors(keyOk) \cup
                        NetBoxConfiguration_clean(configurations # {}, 0, storage,
                                                  TRUE, storageOk, licenseOk)
          IN  /\ Validated("configuration", "create", configurations # {}, errors, "none",
                        NoInput)
              /\ IF errors = {}
                 THEN /\ configurations' = configurations \cup
                            {Configuration(nextPk.configuration, storage)}
                      /\ nextPk' = [nextPk EXCEPT !.configuration = @ + 1]
                 ELSE UNCHANGED <<configurations, nextPk>>
    /\ UNCHANGED dbBackups
    /\ ModelFrame

\* NetBoxConfigurationEditView / NetBoxConfigurationViewSet.update: a saved instance.
EditConfiguration ==
    /\ \E c \in configurations, storage \in StorageNames, keyOk \in BOOLEAN,
          envOk \in BOOLEAN, storageOk \in BOOLEAN, licenseOk \in BOOLEAN :
          LET errors == KeyErrors(keyOk) \cup
                        NetBoxConfiguration_clean(configurations # {}, c.pk, storage,
                                                  envOk, storageOk, licenseOk)
          IN  /\ Validated("configuration", "edit", TRUE, errors, "none", NoInput)
              /\ configurations' =
                    IF errors = {}
                    THEN (configurations \ {c}) \cup {Configuration(c.pk, storage)}
                    ELSE configurations
    /\ UNCHANGED <<dbBackups, nextPk>>
    /\ ModelFrame

\* NetBoxConfigurationViewSet.destroy: the row goes, and by on_delete=CASCADE the
\* NetBoxDBBackup rows that point to it.
DeleteConfiguration ==
    /\ \E c \in configurations :
          /\ configurations' = configurations \ {c}
          /\ dbBackups' = {b \in dbBackups : b.netbox_env # c.pk}
          /\ Validated("configuration", "delete", TRUE, {}, "none", NoInput)
    /\ UNCHANGED nextPk
    /\ ModelFrame

\* env.env_name_storage of the configuration with a primary key.
StorageOf(env) == (CHOOSE c \in configurations : c.pk = env).env_name_storage

\* NetBoxDBBackupEditView / NetBoxDBBackupViewSet.create: a new instance; save
\* enqueues install_addon.
CreateDBBackup ==
    /\ nextPk.backup <= MaxPk
    /\ \E c \in configurations, keep \in KeepChoices, cronOk \in BOOLEAN,
          viaForm \in BOOLEAN, password \in BOOLEAN :
          LET formErrors == IF viaForm THEN NetBoxDBBackupForm_clean(rqWorkers, 0, password)
                            ELSE {}
              errors == formErrors \cup
                        NetBoxDBBackup_clean(dbBackups # {}, 0, c.env_name_storage,
                                             keep, cronOk)
          IN  /\ Validated("backup", "create", dbBackups # {}, errors, "install_addon",
                        BackupInput(c.env_name_storage, keep, cronOk))
              /\ IF errors = {}
                 THEN /\ dbBackups' = dbBackups \cup {DBBackup(nextPk.backup, c.pk, keep)}
                      /\ nextPk' = [nextPk EXCEPT !.backup = @ + 1]
                 ELSE UNCHANGED <<dbBackups, nextPk>>
    /\ UNCHANGED configurations
    /\ ModelFrame

\* NetBoxDBBackupEditView / NetBoxDBBackupViewSet.update: a saved instance; save
\* enqueues install_addon.
EditDBBackup ==
    /\ \E b \in dbBackups, keep \in KeepChoices, cronOk \in BOOLEAN,
          viaForm \in BOOLEAN, password \in BOOLEAN :
          LET formErrors == IF viaForm
                            THEN NetBoxDBBackupForm_clean(rqWorkers, b.pk, password)
                            ELSE {}
              errors == formErrors \cup
                        NetBoxDBBackup_clean(dbBackups # {}, b.pk, StorageOf(b.netbox_env),
                                             keep, cronOk)
          IN  /\ Validated("backup", "edit", TRUE, errors, "install_addon",
                        BackupInput(StorageOf(b.netbox_env), keep, cronOk))
              /\ dbBackups' =
                    IF errors = {}
                    THEN (dbBackups \ {b}) \cup {DBBackup(b.pk, b.netbox_env, keep)}
                    ELSE dbBackups
    /\ UNCHANGED <<configurations, nextPk>>
    /\ ModelFrame

\* NetBoxDBBackupDeleteView: delete enqueues uninstall_addon and removes the row.
DeleteDBBackup ==
    /\ \E b \in dbBackups :
          /\ dbBackups' = dbBackups \ {b}
          /\ Validated("backup", "delete", TRUE, {}, "uninstall_addon", NoInput)
    /\ UNCHANGED <<configurations, nextPk>>
    /\ ModelFrame

\* An empty database.
InitModelsEmpty ==
    /\ InitNetBox /\ InitFiles /\ InitWorkers /\ InitSubmission /\ InitClients /\ InitRegistry /\ InitScripts
    /\ configurations = {}
    /\ dbBackups = {}
    /\ nextPk = [configuration |-> 1, backup |-> 1]
    /\ validation = NoValidation

NextModels ==
    \/ CreateConfiguration
    \/ EditConfiguration
    \/ DeleteConfiguration
    \/ CreateDBBackup
    \/ EditDBBackup
    \/ DeleteDBBackup
    \/ RQWorkerStarts
    \/ RQWorkerStops

SpecModels == InitModelsEmpty /\ [][NextModels]_vars

-----------------------------------------------------------------------------
(* The cached environment information of the PaaS clients. _get_env_info is  *)
(* decorated with functools.lru_cache(maxsize=1): the decorator wraps the    *)
(* function in the class body, so one cache serves every instance and self   *)
(* is part of the key.                                                       *)

EnvInfoCacheSize == 1    \* @lru_cache(maxsize=1)
MaxRevision == 2         \* revisions of an environment's information in the model
MaxRequests == 3         \* GetEnvInfo requests counted per client

\* The accessors that read through _get_env_info.
CachedAccessors == {"get_env", "get_nodes", "get_node_groups", "get_node", "get_url"}

CacheKeys(cache) == {cache[k].self : k \in DOMAIN cache}
CacheWithout(cache, self) == SelectSeq(cache, LAMBDA entry : entry.self # self)
CacheEntry(cache, self) == CHOOSE entry \in {cache[k] : k \in DOMAIN cache} : entry.self = self

\* functools.lru_cache around a call with key self: a hit returns the stored
\* value and makes the entry the most recently used; a miss calls the function,
\* stores its value and drops the least recently used entries beyond maxsize.
lru_cache_call(cache, maxsize, self, value) ==
    IF self \in CacheKeys(cache)
    THEN [hit |-> TRUE, value |-> CacheEntry(cache, self).value,
          cache |-> Append(CacheWithout(cache, self), CacheEntry(cache, self))]
    ELSE LET grown == Append(cache, [self |-> self, value |-> value])
         IN  [hit |-> FALSE, value |-> value,
              cache |-> IF Len(grown) > maxsize
                        THEN SubSeq(grown, Len(grown) - maxsize + 1, Len(grown))
                        ELSE grown]

ClientFrame == UNCHANGED <<netboxVersion, settingsPlugins, settingsConfig, addonInstalled,
                           registryVars, scriptVars, running, rqWorkers, license, response, modelVars, fileVars,
                           jobVars>>

\* get_env, get_nodes, get_node_groups, get_node or get_url on client i: each reads
\* _get_env_info() (several times in a row for some, with the same self), which
\* asks the platform for GetEnvInfo on a cache miss.
CachedAccess(i, method) ==
    LET r == lru_cache_call(envInfoCache, EnvInfoCacheSize, i, envInfo[i])
    IN  /\ ~r.hit => envInfoRequests[i] < MaxRequests
        /\ envInfoCache' = r.cache
        /\ envInfoRequests' = IF r.hit THEN envInfoRequests
                                ELSE [envInfoRequests EXCEPT ![i] = @ + 1]
        /\ lastAccess' = [client |-> i, method |-> method, info |-> r.value,
                           requested |-> ~r.hit]
        /\ UNCHANGED envInfo
        /\ ClientFrame

\* clear_cache on client i: cache_clear() empties the cache of the function, that
\* is the entries of every client.
ClearCache(i) ==
    /\ envInfoCache' = <<>>
    /\ envInfoRequests' = [j \in PaaSClients |-> 0]
    /\ lastAccess' = [client |-> i, method |-> "clear_cache", info |-> 0,
                       requested |-> FALSE]
    /\ UNCHANGED envInfo
    /\ ClientFrame

\* The environment changes on the platform (a node is added, a redeploy ends).
EnvInfoChanges(e) ==
    /\ envInfo[e] < MaxRevision
    /\ envInfo' = [envInfo EXCEPT ![e] = @ + 1]
    /\ UNCHANGED <<envInfoCache, envInfoRequests, lastAccess>>
    /\ ClientFrame

NextClients ==
    \/ \E i \in PaaSClients, method \in CachedAccessors : CachedAccess(i, method)
    \/ \E i \in PaaSClients : ClearCache(i)
    \/ \E e \in PaaSClients : EnvInfoChanges(e)

SpecClients == Init /\ [][NextClients]_vars

-----------------------------------------------------------------------------
(* PaaSNetBox._get_docker_tags and get_upgrades. A tag name is a record:     *)
(* v tells whether the name starts with "v", semver whether Version.parse    *)
(* accepts the rest (it raises ValueError for "1.2" or "latest"), and        *)
(* major, minor, patch, prerelease are the parsed parts. NetBox release       *)
(* number n of the model is the semantic version 1.n.1.                       *)

MaxTags == 3    \* tag names the registry lists in the model

TagName(v, semver, major, minor, patch, prerelease) ==
    [v |-> v, semver |-> semver, major |-> major, minor |-> minor, patch |-> patch,
     prerelease |-> prerelease]

\* v1.1.0, v1.1.1, v1.1.2, v1.2.0, v1.2.0-beta1, 1.2.0, v1.2
RegistryTagNames ==
    {TagName(TRUE, TRUE, 1, 1, 0, FALSE), TagName(TRUE, TRUE, 1, 1, 1, FALSE),
     TagName(TRUE, TRUE, 1, 1, 2, FALSE), TagName(TRUE, TRUE, 1, 2, 0, FALSE),
     TagName(TRUE, TRUE, 1, 2, 0, TRUE), TagName(FALSE, TRUE, 1, 2, 0, FALSE),
     TagName(TRUE, FALSE, 1, 2, 0, FALSE)}

\* semver's Version: the parts that take part in the comparison.
Version(major, minor, patch, prerelease) ==
    [major |-> major, minor |-> minor, patch |-> patch, prerelease |-> prerelease]

\* Version.parse(settings.VERSION)
CurrentVersion(n) == Version(1, n, 1, FALSE)

\* Version.__gt__: major, minor, patch in turn; a prerelease precedes its release.
VersionGreater(a, b) ==
    \/ a.major > b.major
    \/ a.major = b.major /\ a.minor > b.minor
    \/ a.major = b.major /\ a.minor = b.minor /\ a.patch > b.patch
    \/ a.major = b.major /\ a.minor = b.minor /\ a.patch = b.patch
          /\ ~a.prerelease /\ b.prerelease

\* _get_docker_tags: the names that start with "v", parse as a semantic version
\* and are not a prerelease, as Versions, in the registry's order.
RECURSIVE get_docker_tags(_)
get_docker_tags(names) ==
    IF names = <<>> THEN <<>>
    ELSE LET name == Head(names)
             rest == get_docker_tags(Tail(names))
         IN  IF name.v /\ name.semver /\ ~name.prerelease
             THEN <<Version(name.major, name.minor, name.patch, name.prerelease)>> \o rest
             ELSE rest

\* The body of get_upgrades' loop for one tag.
UpgradesOfTag(tag, current_version, include_patch) ==
    (IF include_patch /\ tag.major = current_version.major
                      /\ tag.minor = current_version.minor
     THEN <<tag>> ELSE <<>>)
    \o (IF VersionGreater(tag, current_version) THEN <<tag>> ELSE <<>>)

RECURSIVE UpgradesOf(_, _, _)
UpgradesOf(docker_tags, current_version, include_patch) ==
    IF docker_tags = <<>> THEN <<>>
    ELSE UpgradesOfTag(Head(docker_tags), current_version, include_patch)
         \o UpgradesOf(Tail(docker_tags), current_version, include_patch)

get_upgrades(names, version, include_patch) ==
    UpgradesOf(get_docker_tags(names), CurrentVersion(version), include_patch)

\* get_upgrades is called (by is_upgrade_available, or by NetBoxUpgradeForm with
\* include_patch=True).
GetUpgrades(include_patch) ==
    /\ upgrades' = [called |-> TRUE, include_patch |-> include_patch,
                     result |-> get_upgrades(registry, netboxVersion, include_patch)]
    /\ UNCHANGED <<registry, netboxVersion, settingsPlugins, settingsConfig, addonInstalled,
                   clientVars, scriptVars, running, webVars, modelVars, fileVars, jobVars>>

\* The registries of the model: up to MaxTags tag names, none listed twice.
Registries ==
    {names \in UNION {[1..n -> RegistryTagNames] : n \in 0..MaxTags} :
        \A j, k \in DOMAIN names : j # k => names[j] # names[k]}

InitGetUpgrades ==
    /\ InitNetBox /\ InitFiles /\ InitWorkers /\ InitSubmission /\ InitModels /\ InitClients
    /\ InitScripts
    /\ registry \in Registries
    /\ upgrades = NoUpgrades

NextGetUpgrades == \E include_patch \in BOOLEAN : GetUpgrades(include_patch)

SpecGetUpgrades == InitGetUpgrades /\ [][NextGetUpgrades]_vars

-----------------------------------------------------------------------------
(* PaaS.run_script and the platform's script store. Scripting.DeleteScript   *)
(* names a script by its name, so the store holds at most one script per     *)
(* name. What Scripting.CreateScript answers when a script of that name is   *)
(* still stored is the platform's choice: it replaces the script, or it      *)
(* refuses, and the client raises JelasticApiError.                          *)

MaxTasks == 2     \* scheduled tasks kept in the model until one runs

ScriptCodes == {"code-a", "code-b"}
ScriptDelays == {RestartDelay, RestartDelay * 10}

\* run_script(name, code, delay): GetScripts and DeleteScript of a script of that
\* name inside try / except JelasticApiError (listFails, deleteFails: the call
\* raises), then CreateScript and CreateEnvTask outside of it.
RunScript(id, code, delay, listFails, deleteFails, refuses) ==
    LET existed == scripts[id] # None
        deleted == existed /\ ~listFails /\ ~deleteFails
        cleanup == IF listFails THEN "list_failed"
                   ELSE IF existed /\ deleteFails THEN "delete_failed"
                   ELSE "done"
        created == deleted \/ ~existed \/ ~refuses
    IN  /\ created => Len(tasks) < MaxTasks
        /\ scripts' = [scripts EXCEPT ![id] = IF created THEN code
                                               ELSE scripts[id]]
        /\ tasks' = IF created THEN Append(tasks, run_script(id.name, id.target, delay))
                     ELSE tasks
        /\ scriptCall' = [called |-> TRUE, id |-> id, code |-> code, delay |-> delay,
                           cleanup |-> cleanup, existed |-> existed, created |-> created,
                           outcome |-> IF created THEN "returned" ELSE "raised",
                           scheduled |-> IF created
                                         THEN <<run_script(id.name, id.target, delay)>>
                                         ELSE <<>>]
        /\ UNCHANGED <<netboxVersion, settingsPlugins, settingsConfig, addonInstalled,
                       clientVars, registryVars, running, webVars, modelVars, fileVars,
                       jobVars>>

\* The platform runs a scheduled task; a one-shot task is gone afterwards.
TaskRuns ==
    /\ \E k \in DOMAIN tasks :
          tasks' = SubSeq(tasks, 1, k - 1) \o SubSeq(tasks, k + 1, Len(tasks))
    /\ UNCHANGED <<netboxVersion, settingsPlugins, settingsConfig, addonInstalled,
                   clientVars, registryVars, scripts, scriptCall, running, webVars,
                   modelVars, fileVars, jobVars>>

NextScripts ==
    \/ \E id \in ScriptIds, code \in ScriptCodes, delay \in ScriptDelays,
          listFails \in BOOLEAN, deleteFails \in BOOLEAN, refuses \in BOOLEAN :
          RunScript(id, code, delay, listFails, deleteFails, refuses)
    \/ TaskRuns

SpecScripts == Init /\ [][NextScripts]_vars

-----------------------------------------------------------------------------
(* Properties of the plugin lifecycle operations.                           *)

\* The entry of an app label in a dict: <<settings>> or <<>> when not listed.
Entry(d, l) == IF l \in DOMAIN d THEN <<d[l]>> ELSE <<>>

Enabled == load_plugins(pluginsFile)
Disabled == load_plugins(disabledFile)
EnabledBefore(w) == load_plugins(pre[w].plugins)
DisabledBefore(w) == load_plugins(pre[w].disabled)

Completed(w, func) == status[w] = "completed" /\ job[w].func = func
JobLabel(w) == PluginByName(job[w].plugin).app_label

\* The entries of every plugin other than l are what they were in the two dicts.
OthersUnchanged(l, e0, d0) ==
    \A o \in AppLabels \ {l} :
        /\ Entry(Enabled, o) = Entry(e0, o)
        /\ Entry(Disabled, o) = Entry(d0, o)

\* A lazy restart is scheduled for every NetBox node group: one one-shot task
\* running the group's ncp-restart script.
LazyRestartScheduled(w) ==
    \A i \in 1..Len(EnvNodeGroups) :
        IsNetBoxImage(EnvNodeGroups[i].dockerName) =>
            \E k \in 1..Len(log[w]) :
                /\ log[w][k].call = "CreateEnvTask"
                /\ log[w][k].arg = "ncp-restart"
                /\ log[w][k].target = EnvNodeGroups[i].name

\* C2: after install_plugin(plugin, version, plugin_settings) completes, plugins.yaml
\* maps the plugin's app label to plugin_settings (to the empty mapping when none
\* were given), disabled_plugins.yaml does not list the app label, and the entries
\* of every other plugin in both files are what they were before.
C2_InstallPostcondition ==
    \A w \in Workers :
        Completed(w, "install_plugin") =>
            LET l == JobLabel(w)
                given == job[w].plugin_settings
            IN  /\ Entry(Enabled, l) = <<IF given = None THEN EmptySettings ELSE given>>
                /\ Entry(Disabled, l) = <<>>
                /\ OthersUnchanged(l, EnabledBefore(w), DisabledBefore(w))

\* C2 happens: an install without settings of a plugin that was disabled, while
\* another plugin is enabled, has completed.
C2_Witness ==
    \E w \in Workers :
        /\ Completed(w, "install_plugin")
        /\ job[w].plugin_settings = None
        /\ JobLabel(w) \in DOMAIN DisabledBefore(w)
        /\ DOMAIN DisabledBefore(w) # {JobLabel(w)}
        /\ DOMAIN EnabledBefore(w) # {}

\* Every app label is listed in at most one of the two files.
AtMostOneFile(e, d) == (DOMAIN e) \cap (DOMAIN d) = {}

\* C3: after uninstall_plugin(plugin) completes, started where the app label was in
\* at most one of the two files, the app label is in neither file, the entries of
\* every other plugin are unchanged and a lazy restart of every NetBox node group
\* has been scheduled - whether or not the plugin was listed or had a requirement.
C3_UninstallPostcondition ==
    \A w \in Workers :
        (Completed(w, "uninstall_plugin") /\ AtMostOneFile(EnabledBefore(w), DisabledBefore(w))) =>
            LET l == JobLabel(w)
            IN  /\ Entry(Enabled, l) = <<>>
                /\ Entry(Disabled, l) = <<>>
                /\ OthersUnchanged(l, EnabledBefore(w), DisabledBefore(w))
                /\ LazyRestartScheduled(w)

\* C3 happens: an uninstall of a disabled plugin, which has no requirement entry
\* under its name, has completed while another plugin is enabled.
C3_Witness ==
    \E w \in Workers :
        /\ Completed(w, "uninstall_plugin")
        /\ JobLabel(w) \in DOMAIN DisabledBefore(w)
        /\ DOMAIN EnabledBefore(w) # {}
        /\ ~ReqExists(ReqLoads(pre[w].req.text), ParseRequirement(BareLine(job[w].plugin)))

\* C4: disable_plugin moves the entry of a plugin listed in plugins.yaml, settings
\* unchanged, to disabled_plugins.yaml; enable_plugin moves the entry of a plugin
\* listed in disabled_plugins.yaml back; and enable_plugin right after
\* disable_plugin of the same plugin leaves every entry of both files as it was
\* before the two.
C4_DisableEnableRoundTrip ==
    \A w \in Workers :
        LET l == JobLabel(w)
        IN  /\ (Completed(w, "disable_plugin") /\ l \in DOMAIN EnabledBefore(w)) =>
                   /\ Entry(Enabled, l) = <<>>
                   /\ Entry(Disabled, l) = Entry(EnabledBefore(w), l)
                   /\ OthersUnchanged(l, EnabledBefore(w), DisabledBefore(w))
            /\ (Completed(w, "enable_plugin") /\ l \in DOMAIN DisabledBefore(w)) =>
                   /\ Entry(Disabled, l) = <<>>
                   /\ Entry(Enabled, l) = Entry(DisabledBefore(w), l)
                   /\ OthersUnchanged(l, EnabledBefore(w), DisabledBefore(w))
            /\ (/\ Completed(w, "enable_plugin") /\ roundTrip[w].on
                /\ l \in DOMAIN load_plugins(roundTrip[w].pre.plugins)) =>
                   \A o \in AppLabels :
                       /\ Entry(Enabled, o) = Entry(load_plugins(roundTrip[w].pre.plugins), o)
                       /\ Entry(Disabled, o) = Entry(load_plugins(roundTrip[w].pre.disabled), o)

\* C4 happens: a plugin enabled with settings was disabled and enabled again,
\* while another plugin was disabled all along.
C4_Witness ==
    \E w \in Workers :
        /\ Completed(w, "enable_plugin") /\ roundTrip[w].on
        /\ Entry(load_plugins(roundTrip[w].pre.plugins), JobLabel(w)) = <<SomeSettings>>
        /\ DOMAIN load_plugins(roundTrip[w].pre.disabled) # {}

\* C14: with jobs run one at a time from files that list no app label twice,
\* no app label is ever in both plugins.yaml and disabled_plugins.yaml, the
\* states between the two file writes of one operation included.
C14_NeverInBothFiles == AtMostOneFile(Enabled, Disabled)

\* C14 happens: disable_plugin has written plugins.yaml without the entry and has
\* not yet written disabled_plugins.yaml, which lists another plugin.
C14_Witness ==
    /\ status["w1"] = "running" /\ job["w1"].func = "disable_plugin"
    /\ pc["w1"] = "move_dump_dest"
    /\ Entry(Enabled, JobLabel("w1")) = <<>> /\ Entry(Disabled, JobLabel("w1")) = <<>>
    /\ JobLabel("w1") \in DOMAIN EnabledBefore("w1")
    /\ DOMAIN Disabled # {}

\* What _run_job saved as job.data["params"]: the enqueued keyword arguments
\* without "_func".
ParamsOf(j) ==
    [k \in {"plugin", "version", "plugin_settings"} |->
        CASE k = "plugin" -> [name |-> j.plugin]
          [] k = "version" -> j.version
          [] k = "plugin_settings" -> [settings |-> j.plugin_settings]]

\* C18: a job that _run_job has finished is in exactly one terminal status,
\* completed if the function returned (it reached its last statement, the lazy
\* restart) and errored if it raised (it did not); job.data was saved then, and
\* only then, with the keyword arguments without _func as params and with the
\* return value as result and no error, or with the exception as error and no
\* result; the worker is free for the next job in either case.
C18_RunJobOutcome ==
    \A w \in Workers :
        /\ status[w] \in {"idle", "running", "completed", "errored"}
        /\ data[w].saved <=> status[w] \in {"completed", "errored"}
        /\ status[w] = "running" => data[w].result = <<>> /\ data[w].error = <<>>
        /\ status[w] \in {"running", "completed", "errored"} => data[w].params = ParamsOf(job[w])
        /\ status[w] = "completed" =>
              /\ LazyRestartScheduled(w)
              /\ data[w].result = <<[returned_by |-> job[w].func]>>
              /\ data[w].error = <<>>
              /\ pc[w] = "idle"
        /\ status[w] = "errored" =>
              /\ ~LazyRestartScheduled(w)
              /\ data[w].error = <<[raised_by |-> job[w].func]>>
              /\ data[w].result = <<>>
              /\ pc[w] = "idle"

\* C18 happens: install_plugin raised because plugin_requirements.txt could not
\* be read, and _run_job saved the error with the job's params.
C18_Witness ==
    /\ status["w1"] = "errored" /\ job["w1"].func = "install_plugin"
    /\ data["w1"].saved /\ data["w1"].error # <<>>
    /\ "plugin" \in DOMAIN data["w1"].params

-----------------------------------------------------------------------------
(* Properties of upgrade and db_backup, checked under SpecUpgrade.          *)

\* The step of upgrade a remote call belongs to; 0 for a call that is none of them.
UpgradePhase(e) ==
    CASE e.call = "ExecuteAction" /\ e.arg = "backup" -> 1
      [] e.call = "File.Write" -> 2
      [] e.call = "RedeployContainersByGroup" -> 3
      [] e.call = "ExecCmdById" /\ e.arg = "manage.py collectstatic" -> 4
      [] e.call = "CreateEnvTask" /\ e.arg = "ncp-upgrade-netbox" -> 5
      [] OTHER -> 0

PhaseCalls(w, n) == {i \in 1..Len(log[w]) : UpgradePhase(log[w][i]) = n}

WritesOf(w, fileName) ==
    {i \in 1..Len(log[w]) : log[w][i].call = "File.Write" /\ log[w][i].target = fileName}

\* The installed catalogue plugins: those whose app label is in settings.PLUGINS.
InstalledPlugins == {i \in CatalogueIdx : Catalogue[i].app_label \in settingsPlugins}

\* The NetBox node groups other than cp, as the environment lists them.
OtherNetBoxGroupNames ==
    {EnvNodeGroups[i].name : i \in {j \in 1..Len(EnvNodeGroups) :
        /\ IsNetBoxImage(EnvNodeGroups[j].dockerName)
        /\ EnvNodeGroups[j].name # "cp"}}

\* C5: the remote calls of an upgrade job come in the order backup (issued exactly
\* when the db-backup addon is installed, and then before anything else), rewrites of
\* the requirements and plugin files, redeploy of cp to the target tag, collectstatic
\* on the cp master node, the script redeploying every other NetBox node group to
\* the same tag; a completed upgrade has made each of the last three calls once and
\* has rewritten both files once per installed plugin.
C5_UpgradeOrder ==
    \A w \in Workers :
        job[w].func = "upgrade" =>
            /\ \A i, j \in 1..Len(log[w]) :
                  i < j => UpgradePhase(log[w][i]) <= UpgradePhase(log[w][j])
            /\ \A n \in {1, 3, 4, 5} : Cardinality(PhaseCalls(w, n)) <= 1
            /\ (addonInstalled /\ log[w] # <<>>) => UpgradePhase(log[w][1]) = 1
            /\ ~addonInstalled => PhaseCalls(w, 1) = {}
            /\ \A i \in PhaseCalls(w, 3) :
                  log[w][i].target = "cp" /\ log[w][i].tag = up[w].version
            /\ \A i \in PhaseCalls(w, 4) : log[w][i].target = "n20"
            /\ \A i \in PhaseCalls(w, 5) :
                  /\ SeqRange(log[w][i].groups) = OtherNetBoxGroupNames
                  /\ log[w][i].tag = up[w].version
            /\ status[w] = "completed" =>
                  /\ \A n \in {3, 4, 5} : Cardinality(PhaseCalls(w, n)) = 1
                  /\ addonInstalled => Cardinality(PhaseCalls(w, 1)) = 1
                  /\ Cardinality(WritesOf(w, "plugin_requirements.txt"))
                        = Cardinality(InstalledPlugins)
                  /\ Cardinality(WritesOf(w, "plugins.yaml")) = Cardinality(InstalledPlugins)

\* An upgrade of a NetBox with the addon and a plugin installed has completed: the
\* backup, the rewrites, the redeploy, collectstatic and the script were all issued.
C5_Witness ==
    \E w \in Workers :
        /\ Completed(w, "upgrade")
        /\ addonInstalled
        /\ InstalledPlugins # {}
        /\ PhaseCalls(w, 1) # {} /\ PhaseCalls(w, 2) # {} /\ PhaseCalls(w, 5) # {}

\* The newest release of a plugin that is compatible with a NetBox version.
CompatibleTags(plugin, version) ==
    {plugin.releases[i].tag : i \in {j \in 1..Len(plugin.releases) :
        /\ (plugin.releases[j].min = <<>> \/ version >= plugin.releases[j].min[1])
        /\ (plugin.releases[j].max = <<>> \/ version <= plugin.releases[j].max[1])}}

Newest(plugin, version) ==
    CHOOSE t \in CompatibleTags(plugin, version) :
        \A u \in CompatibleTags(plugin, version) : u.num <= t.num

\* C6: after upgrade(version) completes, plugin_requirements.txt holds, for every
\* installed catalogue plugin, the requirement of its newest release compatible with
\* the version, and the job ran no pip install, no collectstatic other than
\* upgrade's own and scheduled no restart.
C6_UpgradePinsEveryPlugin ==
    \A w \in Workers :
        Completed(w, "upgrade") =>
            /\ \A k \in InstalledPlugins :
                  PluginReq(Catalogue[k], Newest(Catalogue[k], up[w].version))
                      \in SeqRange(reqFile.text)
            /\ \A i \in 1..Len(log[w]) : UpgradePhase(log[w][i]) # 0
            /\ Cardinality(PhaseCalls(w, 4)) = 1

\* C9: db_backup issues the backup action only from the state its poll left when it
\* reported no running backup; a poll reports a running backup exactly when the
\* environment has a running backup action of the addon, and after such a poll the
\* job only sleeps and polls again, issuing nothing.
C9_BackupOnlyAfterClearPoll ==
    [][\A w \in Workers :
          /\ (/\ Len(log'[w]) = Len(log[w]) + 1
              /\ log'[w][Len(log'[w])].call = "ExecuteAction")
                => pc[w] = "backup_execute" /\ lastPoll[w].result = "clear"
          /\ (pc[w] = "backup_poll" /\ pc'[w] # "backup_poll")
                => /\ log'[w] = log[w]
                   /\ lastPoll'[w].result =
                        (IF [env |-> "env-netbox", appUniqueName |-> "db-backup-1",
                             action |-> "backup"] \in running
                         THEN "running" ELSE "clear")
                   /\ pc'[w] = (IF lastPoll'[w].result = "running"
                                THEN "backup_sleep" ELSE "backup_execute")
          /\ (pc[w] = "backup_sleep" /\ pc'[w] # "backup_sleep")
                => /\ lastPoll[w].result = "running"
                   /\ log'[w] = log[w]
                   /\ pc'[w] = "backup_poll"
      ]_vars

\* A db_backup job found a backup running, slept, polled again, found none and
\* issued the backup.
C9_Witness ==
    \E w \in Workers :
        /\ Completed(w, "db_backup")
        /\ lastPoll[w].waited /\ lastPoll[w].result = "clear"
        /\ \E i \in 1..Len(log[w]) : log[w][i] = BackupEvent

-----------------------------------------------------------------------------
(* Properties of the submissions, checked under SpecWeb. A step that changes *)
(* response is a submission answered.                                        *)

\* No action of this environment is running.
EnvironmentIdle == {a \in running : a.env = "env-netbox"} = {}

GuardedFuncs ==
    {"install_plugin", "uninstall_plugin", "enable_plugin", "disable_plugin",
     "upgrade", "apply_settings"}

\* C1: a submission through a web form or a REST plugin endpoint enqueues its job
\* (plugin install, uninstall, enable, disable, upgrade, settings) only if an RQ
\* worker serves the queue and the environment has no running action at that time;
\* otherwise it is rejected with validation errors and enqueues nothing.
C1_EnqueueOnlyWhenIdle ==
    [][response' # response =>
          /\ response'.outcome = "enqueued" =>
                /\ response'.job.func \in GuardedFuncs
                /\ rqWorkers > 0
                /\ EnvironmentIdle
          /\ ~(rqWorkers > 0 /\ EnvironmentIdle) =>
                /\ response'.outcome = "rejected"
                /\ response'.errors # {}
                /\ response'.job.func = "none"
      ]_vars

\* A REST request was rejected because an action was running although a worker
\* served the queue.
C1_Witness ==
    /\ response.entry \in {"api_create", "api_update", "api_destroy"}
    /\ response.outcome = "rejected"
    /\ \E e \in response.errors : e.code = "actions_running"
    /\ rqWorkers > 0
    /\ ~EnvironmentIdle

\* The installed catalogue plugins without a release compatible with a version.
Incompatible(v) ==
    {k \in InstalledPlugins : CompatibleTags(Catalogue[k], v) = {}}

FirstIncompatible(v) ==
    Catalogue[CHOOSE k \in Incompatible(v) : \A j \in Incompatible(v) : k <= j].name

UpgradeChecksAnswer(v) ==
    IF Incompatible(v) = {} THEN [ok |-> TRUE, plugin |-> None, version |-> 0]
    ELSE [ok |-> FALSE, plugin |-> FirstIncompatible(v), version |-> v]

RejectedOnVersion(r) ==
    /\ r.outcome = "rejected"
    /\ r.job.func = "none"
    /\ [field |-> "version", code |-> "no_release",
        plugin |-> FirstIncompatible(r.target), version |-> r.target] \in r.errors

\* C7 as stated: whenever some installed plugin has no release compatible with the
\* submitted version, the upgrade form is rejected on its version field with
\* upgrade_checks' message.
C7_AsStated ==
    [][(/\ response' # response
        /\ response'.entry = "upgrade_form"
        /\ response'.target \in UpgradeChoices
        /\ Incompatible(response'.target) # {})
            => RejectedOnVersion(response')
      ]_vars

\* C7: upgrade_checks(version) returns (True, "") when every installed catalogue
\* plugin has a release compatible with the version and (False, message naming the
\* first one that has none) otherwise; the upgrade form enqueues an upgrade only
\* to a version for which every installed plugin has a compatible release; and,
\* when an RQ worker serves the queue, a submission for which some plugin has none
\* is rejected on the version field with that message and enqueues nothing.
C7_UpgradeOnlyWhenCompatible ==
    [][(response' # response /\ response'.entry = "upgrade_form") =>
             /\ upgrade_checks(settingsPlugins, response'.target)
                   = UpgradeChecksAnswer(response'.target)
             /\ response'.outcome = "enqueued" =>
                   /\ response'.job.func = "upgrade"
                   /\ response'.job.target = response'.target
                   /\ Incompatible(response'.target) = {}
             /\ (/\ rqWorkers > 0
                 /\ response'.target \in UpgradeChoices
                 /\ Incompatible(response'.target) # {})
                   => RejectedOnVersion(response')
      ]_vars

\* The upgrade form was rejected on its version field: an installed plugin has no
\* release for the submitted version.
C7_Witness ==
    /\ response.entry = "upgrade_form"
    /\ Incompatible(response.target) # {}
    /\ RejectedOnVersion(response)

\* C8: whatever the entry point, an install job for a private plugin is enqueued
\* only when the NetBoxConfiguration has a license and the plugin's repository is
\* accessible with it.
C8_PrivateInstallNeedsLicense ==
    [][(/\ response' # response
        /\ response'.outcome = "enqueued"
        /\ response'.job.func = "install_plugin"
        /\ response'.job.plugin \in PluginNames
        /\ PluginByName(response'.job.plugin).private)
            => license = "lic-valid"
      ]_vars

-----------------------------------------------------------------------------
(* Properties of the two models, checked under SpecModels.                  *)

\* C10: at most one NetBoxConfiguration and at most one NetBoxDBBackup exist; the
\* validation of a new instance fails with "There can only be one ... instance."
\* whenever one existed already, and the validation of a saved instance never
\* fails with that error.
C10_SingleInstance ==
    /\ Cardinality(configurations) <= 1
    /\ Cardinality(dbBackups) <= 1
    /\ (validation.op = "create" /\ validation.existed) =>
          [field |-> "__all__", code |-> "only_one_instance",
           plugin |-> "None", version |-> 0] \in validation.errors
    /\ validation.op = "edit" =>
          \A e \in validation.errors : e.code # "only_one_instance"

\* A second NetBoxDBBackup was refused while the first one and its
\* NetBoxConfiguration exist, after rows had been created and deleted before.
C10_Witness ==
    /\ validation.model = "backup" /\ validation.op = "create" /\ validation.existed
    /\ validation.errors # {}
    /\ Cardinality(dbBackups) = 1 /\ Cardinality(configurations) = 1
    /\ nextPk.configuration > 2

\* The fields NetBoxDBBackup.clean attaches its errors to.
BackupFields == {"netbox_env", "keep_backups", "crontab"}

\* The field of the first condition of NetBoxDBBackup.clean that a record
\* violates, in the order the conditions are tested; "" when it violates none.
ViolatedField(input) ==
    IF input.storage = "" THEN "netbox_env"
    ELSE IF input.keep < 1 \/ input.keep > 30 THEN "keep_backups"
    ELSE IF ~input.cronOk THEN "crontab"
    ELSE ""

FieldsOf(errors) == {e.field : e \in errors}

-----------------------------------------------------------------------------
(* Properties of the PaaS clients' cache, checked under SpecClients.         *)

\* C12: between two clear_cache calls a client issues at most one GetEnvInfo
\* request, whatever other clients are used in between.
C12_EnvInfoFetchedOnce ==
    \A i \in PaaSClients : envInfoRequests[i] <= 1

-----------------------------------------------------------------------------
(* Properties of get_upgrades, checked under SpecGetUpgrades.                *)

Elements(seq) == {seq[k] : k \in DOMAIN seq}

\* C13: every version get_upgrades returns is a non-prerelease "v" tag of the
\* registry that is strictly newer than the running NetBox, and none is
\* returned twice.
C13_UpgradesAreNewer ==
    upgrades.called =>
       /\ \A u \in Elements(upgrades.result) :
             /\ ~u.prerelease
             /\ \E name \in Elements(registry) :
                   /\ name.v /\ name.semver
                   /\ Version(name.major, name.minor, name.patch, name.prerelease) = u
             /\ u.major > 1
                \/ (u.major = 1 /\ u.minor > netboxVersion)
                \/ (u.major = 1 /\ u.minor = netboxVersion /\ u.patch > 1)
       /\ Cardinality(Elements(upgrades.result)) = Len(upgrades.result)

-----------------------------------------------------------------------------
(* Properties of concurrent jobs, checked under SpecConcurrent.              *)

ReqLines == {reqFile.text[k] : k \in DOMAIN reqFile.text}

\* The files show the update of worker w's completed job to its own plugin. The
\* requirement is looked at for public plugins, whose lines carry their name.
UpdateKept(w) ==
    LET l == JobLabel(w)
        p == PluginByName(job[w].plugin)
        given == job[w].plugin_settings
    IN  CASE job[w].func = "install_plugin" ->
               /\ Entry(Enabled, l) = <<IF given = None THEN EmptySettings ELSE given>>
               /\ Entry(Disabled, l) = <<>>
               /\ ~p.private => SpecLine(p.name, job[w].version) \in ReqLines
          [] job[w].func = "uninstall_plugin" ->
               /\ Entry(Enabled, l) = <<>>
               /\ Entry(Disabled, l) = <<>>
               /\ ~p.private => \A line \in ReqLines : line.pkg # p.name
          [] job[w].func = "disable_plugin" ->
               IF l \in DOMAIN EnabledBefore(w)
               THEN Entry(Enabled, l) = <<>> /\ Entry(Disabled, l) = <<EnabledBefore(w)[l]>>
               ELSE Entry(Enabled, l) = <<>>
          [] job[w].func = "enable_plugin" ->
               IF l \in DOMAIN DisabledBefore(w)
               THEN Entry(Disabled, l) = <<>> /\ Entry(Enabled, l) = <<DisabledBefore(w)[l]>>
               ELSE Entry(Disabled, l) = <<>>

\* C15: when the two workers' jobs, for two different plugins, have both
\* completed, the three files show the update of each.
C15_BothUpdatesKept ==
    (\A w \in Workers : status[w] = "completed") => \A w \in Workers : UpdateKept(w)

-----------------------------------------------------------------------------
(* Properties of concurrent db_backup jobs, checked under SpecBackups.       *)

\* Worker w issues the backup action in this step.
IssuesBackup(w) == pc[w] = "backup_execute" /\ pc'[w] # "backup_execute"

\* C16: a db_backup job issues the "backup" action only while no backup of the
\* addon is in progress: of two jobs whose polls saw no backup running, the
\* second waits until the backup the first one issued has finished.
C16_OneBackupAtATime ==
    [][\A w \in Workers : IssuesBackup(w) => OurBackup \notin running]_vars

-----------------------------------------------------------------------------
(* Properties of db_backup's loop, checked under SpecBackupLive.             *)

InDBBackup(w) == pc[w] \in {"backup_poll", "backup_sleep", "backup_execute"}

BackupsIssued(w) ==
    Cardinality({k \in DOMAIN log[w] :
                    /\ log[w][k].call = "ExecuteAction"
                    /\ log[w][k].target = "db-backup-1"
                    /\ log[w][k].arg = "backup"})

-----------------------------------------------------------------------------
(* Properties of run_script, checked under SpecScripts.                      *)

\* The one task a call schedules: a one-shot task for the script with trigger
\* delay delay * 1000 milliseconds.
OneTaskFor(c) ==
    /\ Len(c.scheduled) = 1
    /\ c.scheduled[1].call = "CreateEnvTask"
    /\ c.scheduled[1].arg = c.id.name /\ c.scheduled[1].target = c.id.target
    /\ c.scheduled[1].delay = c.delay * 1000

\* C19 as stated: every run_script call ends with the new code stored under
\* the name and one task scheduled for it, also when listing or deleting the
\* existing scripts failed.
C19_AsStated ==
    scriptCall.called =>
        /\ scriptCall.outcome = "returned"
        /\ scripts[scriptCall.id] = scriptCall.code
        /\ OneTaskFor(scriptCall)

\* C19: a run_script call that returns ends with the new code stored under the
\* name and with exactly one task scheduled by it, with trigger delay
\* delay * 1000; a failure to list or delete is only logged and CreateScript is
\* still attempted; the call returns unless a script of that name was left in
\* the store by the failed cleanup and the platform refuses to create over it,
\* and then it raises with the old script stored and no task scheduled.
C19_RunScript ==
    scriptCall.called =>
        /\ scriptCall.outcome \in {"returned", "raised"}
        /\ scriptCall.outcome = "returned" =>
              /\ scripts[scriptCall.id] = scriptCall.code
              /\ OneTaskFor(scriptCall)
        /\ scriptCall.outcome = "raised" =>
              /\ scriptCall.cleanup \in {"list_failed", "delete_failed"}
              /\ scriptCall.existed
              /\ scripts[scriptCall.id] # None
              /\ scriptCall.scheduled = <<>>
        /\ (scriptCall.cleanup = "done" \/ ~scriptCall.existed) =>
              scriptCall.outcome = "returned"

\* C19 happens: listing the scripts failed, no script of the name was stored,
\* and the call stored the new code and scheduled its task after an earlier call
\* had replaced a stored script.
C19_Witness ==
    /\ scriptCall.called /\ scriptCall.cleanup = "list_failed" /\ ~scriptCall.existed
    /\ scriptCall.outcome = "returned"
    /\ scripts[scriptCall.id] = scriptCall.code
    /\ Len(scriptCall.scheduled) = 1
    /\ \E id \in ScriptIds : id # scriptCall.id /\ scripts[id] # None

====
